---- MODULE Spec2Model ----
(***************************************************************************)
(* Wavee: SMS assistant.  A model of the dispatch core: the rate limiter   *)
(* (src/services/rateLimiter.ts), the session store and the credit ledger  *)
(* (SessionService / UserService) and the inbound-SMS handler              *)
(* (router.post('/incoming'), handleActiveUserMessage).                    *)
(*                                                                         *)
(* Time is the process clock in milliseconds, counted from the start of    *)
(* the model; every comparison the code makes on times is a difference,    *)
(* so the origin does not matter.                                          *)
(***************************************************************************)
EXTENDS Integers, Sequences, FiniteSets, TLC

\* ------------------------------------------------------------------ bounds

\* Largest per-window maximum the limiter is constructed with.
MaxLimit == 2
\* Number of clock advances in one behaviour.
MaxAdvances == 3
\* Largest credit balance an account is topped up to.
MaxCredits == 4
\* Largest total of credits added to one account by addCredits calls.
MaxCredited == 6
\* Largest amount of one addCredits or deductCredits call.
MaxAmount == 2
\* Number of updateSession calls in one behaviour of the session store.
MaxUpdates == 4
\* Number of inbound messages in one behaviour.
MaxMessages == 6
\* Number of collaborator calls that fail in one behaviour.
MaxFailures == 1
\* Number of messages in one behaviour that arrive while another is handled.
MaxOverlaps == 1
\* Number of times the clock moves between two messages in one behaviour.
MaxSmsAdvances == 1
\* Number of custom agents created in one behaviour.
MaxAgents == 3
\* Number of calls of the account routes in one behaviour.
MaxRequests == 4

\* ------------------------------------------------------------------ values

Phones == {"+46701", "+15552"}
Windows == <<"minute", "hour", "day">>
WindowSet == {"minute", "hour", "day"}
NoWindow == "none"
NoPhone == "nobody"

\* RateLimitEntry | undefined: an absent map entry is the record NoEntry.
NoEntry == [count |-> 0, resetAt |-> -1]
Keys == Phones \X WindowSet

VARIABLES
  now,            \* Date.now() / CURRENT_TIMESTAMP, in ms
  advances,       \* how many times the clock has moved
  maxPerMinute,   \* RateLimiter.maxPerMinute
  maxPerHour,     \* RateLimiter.maxPerHour
  maxPerDay,      \* RateLimiter.maxPerDay
  limits,         \* RateLimiter.limits: key -> entry
  lastCheck,      \* the result of the latest checkLimits call
  limitsNoSweep,  \* the same limiter run without cleanup()
  lastCheckNoSweep, \* its result for the same call
  hist,           \* per key: the calls made inside the current window
  users,          \* table users: phone_number -> row
  transactions,   \* table transactions, in insertion order
  lastLedger,     \* the latest UserService call made on the ledger alone
  sessions,       \* table sessions: a set of rows
  nextSessionId,  \* the SERIAL sequence of sessions.id
  arrivals,       \* per phone: the messages appended to its current session
  updates,        \* how many updateSession calls have been made
  hs,             \* per handler: the inbound message it handles and where it is
  received,       \* how many inbound messages have been received
  failures,       \* how many collaborator calls have failed
  overlaps,       \* how many messages arrived while another was handled
  message,        \* the text handed to GPSService.parseLocation
  location,       \* what parseLocation returned for it
  customAgents,   \* table custom_agents: id -> row
  activeAgentId,  \* users.active_agent_id, 0 for null
  nextAgentId,    \* the SERIAL sequence of custom_agents.id
  reqs,           \* per request slot: the account route call it handles
  requests,       \* how many account route calls have been received
  credited        \* per identity: the credits addCredits has added so far

limiterVars == <<maxPerMinute, maxPerHour, maxPerDay, limits, lastCheck,
                 limitsNoSweep, lastCheckNoSweep, hist>>
clockVars == <<now, advances>>
ledgerVars == <<users, transactions, lastLedger>>
sessionVars == <<sessions, nextSessionId, arrivals, updates>>
handlerVars == <<hs, received, failures, overlaps>>
gpsVars == <<message, location>>
agentVars == <<customAgents, activeAgentId, nextAgentId, reqs, requests>>
auditVars == <<credited>>
vars == <<clockVars, limiterVars, ledgerVars, sessionVars, handlerVars, gpsVars,
          agentVars, auditVars>>

\* ------------------------------------------------------------ rate limiter

\* getWindowDuration
WindowDuration(w) ==
  CASE w = "minute" -> 60 * 1000
    [] w = "hour" -> 60 * 60 * 1000
    [] w = "day" -> 24 * 60 * 60 * 1000

\* getMaxLimit
MaxLimitOf(w) ==
  CASE w = "minute" -> maxPerMinute
    [] w = "hour" -> maxPerHour
    [] w = "day" -> maxPerDay

\* isAllowed with `entry.count > maxLimit` in place of `>=` (off by one).
IsAllowedOffByOne(lim, p, w, t) ==
  LET entry == lim[<<p, w>>] IN
  IF entry = NoEntry \/ t > entry.resetAt
    THEN [allowed |-> TRUE,
          limits |-> [lim EXCEPT ![<<p, w>>] =
                        [count |-> 1, resetAt |-> t + WindowDuration(w)]]]
    ELSE IF entry.count > MaxLimitOf(w)
      THEN [allowed |-> FALSE, limits |-> lim]
      ELSE [allowed |-> TRUE,
            limits |-> [lim EXCEPT ![<<p, w>>].count = entry.count + 1]]

\* isAllowed(phoneNumber, window) on the map lim at time t: the answer and the
\* map after the call.
IsAllowed(lim, p, w, t) ==
  LET entry == lim[<<p, w>>] IN
  IF entry = NoEntry \/ t > entry.resetAt
    THEN [allowed |-> TRUE,
          limits |-> [lim EXCEPT ![<<p, w>>] =
                        [count |-> 1, resetAt |-> t + WindowDuration(w)]]]
    ELSE IF entry.count >= MaxLimitOf(w)
      THEN [allowed |-> FALSE, limits |-> lim]
      ELSE [allowed |-> TRUE,
            limits |-> [lim EXCEPT ![<<p, w>>].count = entry.count + 1]]

\* checkLimits that evaluates all three windows before answering.
CheckLimitsNoShortCircuit(lim, p, t) ==
  LET m == IsAllowed(lim, p, "minute", t)
      h == IsAllowed(m.limits, p, "hour", t)
      d == IsAllowed(h.limits, p, "day", t)
  IN [allowed |-> m.allowed /\ h.allowed /\ d.allowed,
      window |-> IF ~m.allowed THEN "minute"
                 ELSE IF ~h.allowed THEN "hour"
                 ELSE IF ~d.allowed THEN "day" ELSE NoWindow,
      limits |-> d.limits]

\* checkLimits(phoneNumber): minute, then hour, then day; the first denial
\* returns.
CheckLimits(lim, p, t) ==
  LET m == IsAllowed(lim, p, "minute", t) IN
  IF ~m.allowed
    THEN [allowed |-> FALSE, window |-> "minute", limits |-> m.limits]
    ELSE LET h == IsAllowed(m.limits, p, "hour", t) IN
      IF ~h.allowed
        THEN [allowed |-> FALSE, window |-> "hour", limits |-> h.limits]
        ELSE LET d == IsAllowed(h.limits, p, "day", t) IN
          IF ~d.allowed
            THEN [allowed |-> FALSE, window |-> "day", limits |-> d.limits]
            ELSE [allowed |-> TRUE, window |-> NoWindow, limits |-> d.limits]

\* cleanup that also removes the entries whose reset time is exactly now.
CleanupEager(lim, t) ==
  [k \in Keys |-> IF lim[k] # NoEntry /\ t >= lim[k].resetAt
                    THEN NoEntry ELSE lim[k]]

\* cleanup(): delete every entry whose reset time has passed.
Cleanup(lim, t) ==
  [k \in Keys |-> IF lim[k] # NoEntry /\ t > lim[k].resetAt
                    THEN NoEntry ELSE lim[k]]

\* The windows before and after w in the order checkLimits evaluates them.
WindowIndex(w) == CHOOSE i \in 1..3 : Windows[i] = w
Earlier(w) == {v \in WindowSet : WindowIndex(v) < WindowIndex(w)}
Later(w) == {v \in WindowSet : WindowIndex(v) > WindowIndex(w)}

\* Bookkeeping of the calls made inside the current window of key <<p, w>>,
\* for a checkLimits call at time t that answered r on the map lim:
\*   calls       the checkLimits calls since the window's entry was created
\*               (it stops counting at MaxLimit + 1, one more than any window
\*               allows),
\*   clean       none of them was denied by a window other than w,
\*   denied      one of them was denied by w,
\*   fresh       this call started the window,
\*   afterDeny   the window before this one had denied a call,
\*   swept       cleanup() has removed the window's entry since the last call,
\*   resurrected this call started the window after cleanup() had removed
\*               the entry of the one before.
HistAfter(h, lim, p, w, t, r) ==
  LET entry == lim[<<p, w>>]
      over == entry = NoEntry \/ t > entry.resetAt
      byOther == ~r.allowed /\ r.window # w
      byThis == ~r.allowed /\ r.window = w
      reached == r.allowed \/ r.window \notin Earlier(w)
  IN IF over
       THEN IF reached
              THEN [calls |-> 1, clean |-> ~byOther, denied |-> FALSE,
                    fresh |-> TRUE, afterDeny |-> h.denied, swept |-> FALSE,
                    resurrected |-> h.swept]
              ELSE [h EXCEPT !.calls = 0, !.clean = FALSE, !.fresh = FALSE,
                             !.resurrected = FALSE]
       ELSE [h EXCEPT !.calls = IF h.calls > MaxLimit THEN h.calls ELSE h.calls + 1,
                      !.clean = h.clean /\ ~byOther,
                      !.denied = h.denied \/ byThis,
                      !.fresh = FALSE, !.resurrected = FALSE]

NoHist == [calls |-> 0, clean |-> FALSE, denied |-> FALSE, fresh |-> FALSE,
           afterDeny |-> FALSE, swept |-> FALSE, resurrected |-> FALSE]

\* The identities that call the limiter when it is run alone.
LimiterPhones == {"+46701"}

\* One call of rateLimiter.checkLimits(p), made on the limiter and on its
\* copy that never sweeps.
CheckLimitsCall(p) ==
  LET r == CheckLimits(limits, p, now)
      q == CheckLimits(limitsNoSweep, p, now)
  IN /\ limits' = r.limits
     /\ lastCheck' = [phone |-> p, allowed |-> r.allowed, window |-> r.window]
     /\ limitsNoSweep' = q.limits
     /\ lastCheckNoSweep' = [phone |-> p, allowed |-> q.allowed, window |-> q.window]
     /\ hist' = [k \in Keys |->
                   IF k[1] = p THEN HistAfter(hist[k], limits, p, k[2], now, r)
                   ELSE hist[k]]
     /\ UNCHANGED <<auditVars, gpsVars, agentVars, clockVars, maxPerMinute, maxPerHour, maxPerDay,
                    ledgerVars, sessionVars, handlerVars>>

\* The setInterval(() => this.cleanup(), ...) callback.
CleanupTick ==
  /\ limits' = Cleanup(limits, now)
  /\ limits' # limits
  /\ hist' = [k \in Keys |-> IF limits'[k] # limits[k]
                                THEN [hist[k] EXCEPT !.swept = TRUE] ELSE hist[k]]
  /\ UNCHANGED <<auditVars, gpsVars, agentVars, clockVars, maxPerMinute, maxPerHour, maxPerDay, lastCheck,
                 limitsNoSweep, lastCheckNoSweep, ledgerVars, sessionVars,
                 handlerVars>>

\* Time passes: by one window length, so that a reset time is met exactly
\* and then passed.
AdvanceClock(d) ==
  /\ advances < MaxAdvances
  /\ now' = now + d
  /\ advances' = advances + 1
  /\ UNCHANGED <<auditVars, gpsVars, agentVars, limiterVars, ledgerVars, sessionVars, handlerVars>>

\* ------------------------------------------------------------ credit ledger

Null == "null"
NoUser == [status |-> "none", credits_remaining |-> 0, consent_timestamp |-> -1]
Amounts == 0..MaxAmount

\* createUser(phoneNumber, {status}): INSERT INTO users; credits_remaining
\* takes the column default 0.
CreateUser(U, p, status) ==
  [U EXCEPT ![p] = [status |-> status, credits_remaining |-> 0,
                    consent_timestamp |-> -1]]

\* addCredits: one UPDATE statement; it matches no row when the user is
\* missing.
AddCredits(U, p, n) ==
  IF U[p] = NoUser THEN U
  ELSE [U EXCEPT ![p].credits_remaining = @ + n]

\* A hasCredits that lets an account with nothing left through.
HasNoDebt(U, p, required) ==
  IF U[p] # NoUser THEN U[p].credits_remaining >= 0 ELSE FALSE

\* hasCredits(phoneNumber, required)
HasCredits(U, p, required) ==
  IF U[p] # NoUser THEN U[p].credits_remaining >= required ELSE FALSE

\* deductCredits, the test on the row it read: true when it goes on to the
\* UPDATE.
DeductGuard(user, n) == ~(user = NoUser \/ user.credits_remaining < n)

\* deductCredits, its UPDATE statement: credits_remaining - n on the row as
\* it is when the statement runs.
DeductUpdate(U, p, n) ==
  IF U[p] = NoUser THEN U
  ELSE [U EXCEPT ![p].credits_remaining = @ - n]

\* deductCredits that refuses when the balance equals the amount (`<=` for `<`).
DeductCreditsStrict(U, p, n) ==
  IF U[p] = NoUser \/ U[p].credits_remaining <= n
    THEN [ok |-> FALSE, users |-> U]
    ELSE [ok |-> TRUE, users |-> DeductUpdate(U, p, n)]

\* deductCredits(phoneNumber, credits) run without interleaving: the value
\* returned and the table after the call.
DeductCredits(U, p, n) ==
  IF DeductGuard(U[p], n)
    THEN [ok |-> TRUE, users |-> DeductUpdate(U, p, n)]
    ELSE [ok |-> FALSE, users |-> U]

\* logTransaction: INSERT INTO transactions.
LogTransaction(T, p, type, delta, description) ==
  Append(T, [phone_number |-> p, type |-> type, credits_delta |-> delta,
             description |-> description])

NoLedgerCall == [op |-> "none", phone |-> NoPhone, amount |-> 0, ok |-> TRUE]

\* UserService calls made one at a time on the ledger.
CreateUserCall(p) ==
  /\ users[p] = NoUser
  /\ users' = CreateUser(users, p, "pending")
  /\ lastLedger' = [op |-> "create", phone |-> p, amount |-> 0, ok |-> TRUE]
  /\ UNCHANGED <<auditVars, gpsVars, agentVars, clockVars, limiterVars, transactions, sessionVars, handlerVars>>

AddCreditsCall(p, n) ==
  /\ n >= 1
  /\ users[p].credits_remaining + n <= MaxCredits
  /\ credited[p] + n <= MaxCredited
  /\ users' = AddCredits(users, p, n)
  /\ credited' = IF users[p] = NoUser THEN credited ELSE [credited EXCEPT ![p] = @ + n]
  /\ lastLedger' = [op |-> "add", phone |-> p, amount |-> n, ok |-> TRUE]
  /\ UNCHANGED <<gpsVars, agentVars, clockVars, limiterVars, transactions, sessionVars, handlerVars>>

DeductCreditsCall(p, n) ==
  LET r == DeductCredits(users, p, n) IN
  /\ users' = r.users
  /\ lastLedger' = [op |-> "deduct", phone |-> p, amount |-> n, ok |-> r.ok]
  /\ UNCHANGED <<auditVars, gpsVars, agentVars, clockVars, limiterVars, transactions, sessionVars, handlerVars>>

InitLedger ==
  /\ users = [p \in Phones |-> NoUser]
  /\ transactions = <<>>
  /\ lastLedger = NoLedgerCall

\* ------------------------------------------------------------ session store

SESSION_TIMEOUT_MINUTES == 30
MAX_MESSAGES == 3
LOCATION_MAX_AGE_HOURS == 24

NoLocation == [lat |-> 0, lon |-> 0, timestamp |-> -1]
NoSession == [id |-> 0, phone_number |-> NoPhone, messages |-> <<>>,
              last_ai_response |-> Null, last_location |-> NoLocation,
              updated_at |-> -1]

\* What SELECT ... WHERE phone_number = p ORDER BY updated_at DESC LIMIT 1
\* can return on the table S: a row with the greatest updated_at, or no row.
SelectLatest(S, p) ==
  LET mine == {s \in S : s.phone_number = p}
      top == {s \in mine : \A o \in mine : o.updated_at <= s.updated_at}
  IN IF mine = {} THEN {NoSession} ELSE top

\* An isSessionExpired that expires a session at 30 minutes sharp.
IsSessionExpiredAtLimit(session, t) ==
  t - session.updated_at >= SESSION_TIMEOUT_MINUTES * 60 * 1000

\* isSessionExpired, at time t
IsSessionExpired(session, t) ==
  t - session.updated_at > SESSION_TIMEOUT_MINUTES * 60 * 1000

\* getSession, given the row its SELECT returned
GetSession(row, t) ==
  IF row # NoSession /\ IsSessionExpired(row, t) THEN NoSession ELSE row

\* createSession: INSERT, last_ai_response NULL, updated_at CURRENT_TIMESTAMP
CreateSession(S, id, p, userMessage, t) ==
  S \cup {[id |-> id, phone_number |-> p, messages |-> <<userMessage>>,
           last_ai_response |-> Null, last_location |-> NoLocation,
           updated_at |-> t]}

\* messages.slice(-MAX_MESSAGES)
SliceLast(msgs, n) ==
  IF Len(msgs) <= n THEN msgs ELSE SubSeq(msgs, Len(msgs) - n + 1, Len(msgs))

\* The push and slice of updateSession that keeps the oldest messages.
PushMessageKeepOldest(msgs, userMessage) ==
  IF userMessage # Null
    THEN LET pushed == Append(msgs, userMessage) IN
         IF Len(pushed) > MAX_MESSAGES THEN SubSeq(pushed, 1, MAX_MESSAGES) ELSE pushed
    ELSE msgs

\* updateSession, the message list it writes: push, then keep the last 3.
PushMessage(msgs, userMessage) ==
  IF userMessage # Null
    THEN LET pushed == Append(msgs, userMessage) IN
         IF Len(pushed) > MAX_MESSAGES THEN SliceLast(pushed, MAX_MESSAGES) ELSE pushed
    ELSE msgs

\* updateSession after its getSession returned `session`: a missing or
\* expired session is created from the message alone and the call returns;
\* otherwise UPDATE ... SET messages, last_ai_response, updated_at WHERE
\* id = session.id, which leaves the row's other columns as they are and
\* matches nothing when the row has been deleted.
UpdateSessionWrite(S, id, session, p, userMessage, aiResponse, t) ==
  IF session = NoSession
    THEN IF userMessage # Null THEN CreateSession(S, id, p, userMessage, t) ELSE S
    ELSE {IF s.id = session.id
            THEN [s EXCEPT !.messages = PushMessage(session.messages, userMessage),
                           !.last_ai_response = aiResponse,
                           !.updated_at = t]
            ELSE s : s \in S}

\* updateSession(phoneNumber, userMessage, aiResponse) at time t, run
\* without interleaving, given the row its getSession selected: the table
\* after the call.
UpdateSession(S, id, row, p, userMessage, aiResponse, t) ==
  UpdateSessionWrite(S, id, GetSession(row, t), p, userMessage, aiResponse, t)

\* getContext, given the row its getSession selected
GetContext(row, t) ==
  LET session == GetSession(row, t) IN
  IF session = NoSession
    THEN [messages |-> <<>>, lastAiResponse |-> Null]
    ELSE [messages |-> session.messages, lastAiResponse |-> session.last_ai_response]

\* clearExpiredSessions: DELETE FROM sessions WHERE updated_at < cutoff
ClearExpiredSessions(S, t) ==
  {s \in S : ~(s.updated_at < t - SESSION_TIMEOUT_MINUTES * 60 * 1000)}

\* saveLocation: UPDATE sessions SET last_location WHERE phone_number = p
SaveLocation(S, p, lat, lon, t) ==
  {IF s.phone_number = p
     THEN [s EXCEPT !.last_location = [lat |-> lat, lon |-> lon, timestamp |-> t]]
     ELSE s : s \in S}

NoFix == [found |-> FALSE, lat |-> 0, lon |-> 0]

\* getLastLocation, given the row its SELECT returned
GetLastLocation(row, t) ==
  IF row = NoSession \/ row.last_location = NoLocation
    THEN NoFix
    ELSE IF t - row.last_location.timestamp > LOCATION_MAX_AGE_HOURS * 60 * 60 * 1000
      THEN NoFix
      ELSE [found |-> TRUE, lat |-> row.last_location.lat, lon |-> row.last_location.lon]

Replies == {"r1", "r2"}
Texts == {"m1", "m2"}

\* The messages appended to the current session of p, once updateSession
\* has run on the selected row.
ArrivalsAfter(a, row, userMessage, t) ==
  IF userMessage = Null THEN a
  ELSE IF GetSession(row, t) = NoSession THEN <<userMessage>>
  ELSE Append(a, userMessage)

\* SessionService calls made one at a time, for an account that exists.
UpdateSessionCall(p, m, r) ==
  /\ updates < MaxUpdates
  /\ \E row \in SelectLatest(sessions, p) :
       /\ sessions' = UpdateSession(sessions, nextSessionId, row, p, m, r, now)
       /\ arrivals' = [arrivals EXCEPT ![p] = ArrivalsAfter(@, row, m, now)]
  /\ nextSessionId' = IF Cardinality(sessions') > Cardinality(sessions)
                        THEN nextSessionId + 1 ELSE nextSessionId
  /\ updates' = updates + 1
  /\ UNCHANGED <<auditVars, gpsVars, agentVars, clockVars, limiterVars, ledgerVars, handlerVars>>

ClearExpiredSessionsTick ==
  /\ sessions' = ClearExpiredSessions(sessions, now)
  /\ sessions' # sessions
  /\ UNCHANGED <<auditVars, gpsVars, agentVars, clockVars, limiterVars, ledgerVars, nextSessionId, arrivals, updates,
                 handlerVars>>

InitSessions ==
  /\ sessions = {}
  /\ nextSessionId = 1
  /\ arrivals = [p \in Phones |-> <<>>]
  /\ updates = 0

\* ------------------------------------------------------------- SMS webhook

FREE_TRIAL_CREDITS == 3

\* The inbound texts of the model, as sanitizeInput leaves them.
Bodies == {"Hello", "YES", "STOP", "HELP", "MORE", "59.3293,18.0686"}

\* Texts for the place-search, where-am-I and weather branches, and a
\* position sent together with a place category.
BranchBodies ==
  {"nearest hospital", "where am i", "weather Stockholm",
   "hospital 59.3293 N, 18.0686 E", ""}

\* An inbound request: its text and whether an image is attached
\* (MediaUrl0 with an image/* MediaContentType0).
Inbound ==
  {[body |-> b, media |-> FALSE] : b \in Bodies \cup BranchBodies}
    \cup {[body |-> b, media |-> TRUE] : b \in {"", "STOP"}}

\* message.trim().toLowerCase(), on the texts of the model
Lower(m) ==
  CASE m = "Hello" -> "hello"
    [] m = "YES" -> "yes"
    [] m = "STOP" -> "stop"
    [] m = "HELP" -> "help"
    [] m = "MORE" -> "more"
    [] OTHER -> m

\* isYesConfirmation
IsYesConfirmation(m) == Lower(m) \in {"yes", "y", "ja", "j"}
\* isStopCommand
IsStopCommand(m) == Lower(m) \in {"stop", "unsubscribe", "avsluta"}
\* isHelpCommand
IsHelpCommand(m) == Lower(m) \in {"help", "hjalp", "info"}
\* isMoreCommand
IsMoreCommand(m) == Lower(m) \in {"more", "more info", "tell me more"}
\* isLocationQueryCommand
IsLocationQueryCommand(m) ==
  Lower(m) \in {"where am i", "where am i?", "var ar jag", "var ar jag?",
                "my location", "min position"}

\* handlePlaceSearch, its two tests before the first await: the text holds
\* a place keyword ('nearest', 'find', ...) and parseCategoryFromQuery finds
\* a category in it.
IsPlaceSearch(m) == m \in {"nearest hospital"}

\* aiService.handleWeatherQuery, its keyword test: a text without a weather
\* keyword gets null.
IsWeatherQuery(m) == m \in {"weather Stockholm"}

\* gpsService.parseLocation on the texts of the model; coordinates are in
\* units of 0.0001 degree.
ParseLocation(m) ==
  IF m \in {"59.3293,18.0686", "hospital 59.3293 N, 18.0686 E"}
    THEN [found |-> TRUE, lat |-> 593293, lon |-> 180686]
    ELSE NoFix

\* osmService.parseCategoryFromQuery on the texts of the model: the first
\* pattern of its table found anywhere in the text ('eat' in weather,
\* 'hospital', 'help').
ParseCategoryFromQuery(m) ==
  CASE m \in {"nearest hospital", "hospital 59.3293 N, 18.0686 E"} -> "hospital"
    [] m = "weather Stockholm" -> "restaurant"
    [] m = "HELP" -> "emergency"
    [] OTHER -> "none"

\* The replies the AI collaborator gives: generateResponse and expandResponse.
AiReplies == {"r1"}
Expansions == {"x1"}

Handlers == 1..2

\* A handler that handles nothing.  scope names the try block the handler is
\* in; kind and ret are the text of the SMS about to be sent and the place
\* to go on from after it; row, msg, reply and user are the locals of
\* updateSession and deductCredits; sent, branch, second, http and threw
\* record what the message did (second is the branch that ran after
\* handlePlaceSearch gave up), and pre the account and the session context
\* as they were when the message arrived.
IdleHandler ==
  [pc |-> "idle", phone |-> NoPhone, body |-> "", scope |-> "none",
   kind |-> "none", ret |-> "none", isPending |-> FALSE,
   row |-> NoSession, msg |-> Null, reply |-> Null, user |-> NoUser,
   media |-> FALSE, second |-> "none",
   sent |-> <<>>, branch |-> "none", http |-> 0, threw |-> FALSE,
   pre |-> [credits |-> 0, txs |-> 0, status |-> "none", noReply |-> TRUE,
            messages |-> {}]]

Idle(h) == hs[h].pc \in {"idle", "done"}
AllIdle == \A h \in Handlers : Idle(h)

\* The handler returns to the router, which answers 200.
Finished(rec) == [rec EXCEPT !.pc = "done", !.http = 200]

\* await twilioService.sendSMS(...) comes next.
Sending(rec, kind, ret) == [rec EXCEPT !.pc = "send", !.kind = kind, !.ret = ret]

\* handleActiveUserMessage from the test that follows handlePlaceSearch:
\* where-am-I, MORE, weather query, general AI.  gaveUp is true when
\* handlePlaceSearch had matched the text and returned false from its
\* catch block.
AfterPlaceSearch(rec, gaveUp) ==
  LET name == IF IsLocationQueryCommand(rec.body) THEN "location"
              ELSE IF IsMoreCommand(rec.body) THEN "more"
              ELSE IF IsWeatherQuery(rec.body) THEN "weather"
              ELSE "ai"
      r == IF gaveUp THEN [rec EXCEPT !.second = name] ELSE [rec EXCEPT !.branch = name]
  IN
  CASE name = "location" -> [r EXCEPT !.pc = "loc_getLastLocation", !.scope = "location"]
    [] name = "more" -> [r EXCEPT !.pc = "more_hasCredits", !.scope = "active"]
    [] name = "weather" -> [r EXCEPT !.pc = "wx_query", !.scope = "active"]
    [] OTHER -> [r EXCEPT !.pc = "ai_hasCredits", !.scope = "active"]

\* Where a handler goes when the call it awaits throws, by the try block it
\* is in: the router's catch answers 500; the catch of
\* handleActiveUserMessage, handleMoreCommand, handleGPSMessage,
\* handleImageAnalysis and handleLocationQuery sends an apology from outside
\* its try block; the catch of handleStopCommand, handleHelpCommand and
\* handleNoCredits only logs and the function returns; the catch of
\* handlePlaceSearch returns false and handleActiveUserMessage goes on.
OnThrow(rec) ==
  LET r == [rec EXCEPT !.threw = TRUE] IN
  CASE r.scope = "router" -> [r EXCEPT !.pc = "done", !.http = 500]
    [] r.scope = "active" ->
         [Sending(r, "error", "done") EXCEPT !.scope = "router"]
    [] r.scope = "more" ->
         [Sending(r, "more_error", "more_deduct") EXCEPT !.scope = "active"]
    [] r.scope = "gps" ->
         [Sending(r, "gps_error", "done") EXCEPT !.scope = "active"]
    [] r.scope = "image" ->
         [Sending(r, "image_error", "done") EXCEPT !.scope = "active"]
    [] r.scope = "location" ->
         [Sending(r, "location_error", "done") EXCEPT !.scope = "active"]
    [] r.scope = "place" -> AfterPlaceSearch(r, TRUE)
    [] OTHER -> Finished(r)

\* handleActiveUserMessage after its image test, up to its first await: the
\* branch taken and the place the handler is at.  handlePlaceSearch returns false before any
\* await for a text without a place keyword or category, and so does
\* handleWeatherQuery for a text without a weather keyword.
DispatchText(rec) ==
  IF rec.body = "" THEN Finished([rec EXCEPT !.branch = "empty"])
  ELSE IF IsStopCommand(rec.body)
    THEN [rec EXCEPT !.branch = "stop", !.pc = "stop_deactivate", !.scope = "stop"]
  ELSE IF IsHelpCommand(rec.body)
    THEN [rec EXCEPT !.branch = "help", !.pc = "help_getUser", !.scope = "help"]
  ELSE IF ParseLocation(rec.body).found
    THEN [rec EXCEPT !.branch = "gps", !.pc = "gps_saveLocation", !.scope = "gps"]
  ELSE IF IsPlaceSearch(rec.body)
    THEN [rec EXCEPT !.branch = "place", !.pc = "ps_getLastLocation", !.scope = "place"]
  ELSE AfterPlaceSearch(rec, FALSE)

\* handleActiveUserMessage up to its first await: an image attachment goes
\* to handleImageAnalysis whatever the text is.
Dispatch(rec) ==
  IF rec.media
    THEN [rec EXCEPT !.branch = "image", !.pc = "img_hasCredits", !.scope = "image"]
  ELSE DispatchText(rec)

\* handleMoreCommand, its test `!context.lastAiResponse ||
\* context.messages.length === 0`
NothingToExpand(context) ==
  context.lastAiResponse = Null \/ Len(context.messages) = 0

\* The session context of p holds no reply that MORE could expand.
NoReplyToExpand(p) ==
  \A row \in SelectLatest(sessions, p) : NothingToExpand(GetContext(row, now))

\* The message list getContext returns for p.
ContextMessages(p) ==
  {GetContext(row, now).messages : row \in SelectLatest(sessions, p)}

\* An isUserPending that is also true of an account that opted out.
IsUserNotActive(U, p) == U[p] # NoUser /\ U[p].status # "active"

\* isUserPending
IsUserPending(U, p) == U[p] # NoUser /\ U[p].status = "pending"

\* router.post('/incoming') is called with From, To and Body.
Receive(h, p, body, media) ==
  /\ Idle(h)
  /\ received < MaxMessages
  /\ AllIdle \/ overlaps < MaxOverlaps
  /\ received' = received + 1
  /\ overlaps' = IF AllIdle THEN overlaps ELSE overlaps + 1
  /\ hs' = [hs EXCEPT ![h] =
              [IdleHandler EXCEPT !.pc = "userExists", !.phone = p, !.body = body,
                 !.media = media,
                 !.scope = "router",
                 !.pre = [credits |-> users[p].credits_remaining,
                          txs |-> Len(transactions),
                          status |-> users[p].status,
                          noReply |-> NoReplyToExpand(p),
                          messages |-> ContextMessages(p)]]]
  /\ UNCHANGED <<auditVars, gpsVars, agentVars, clockVars, limiterVars, ledgerVars, sessionVars, failures>>

\* userExists, and for an existing user the getUser that keeps twilio_number
\* and language in step (columns the model leaves out).
UserExists(h) ==
  LET rec == hs[h] IN
  /\ rec.pc = "userExists"
  /\ hs' = [hs EXCEPT ![h].pc =
              IF users[rec.phone] = NoUser THEN "createUser" ELSE "isPending"]
  /\ UNCHANGED <<auditVars, gpsVars, agentVars, clockVars, limiterVars, ledgerVars, sessionVars, received, failures, overlaps>>

\* createUser for a new identity; the INSERT fails on the primary key when
\* the row has appeared in the meantime.
CreateUserStep(h) ==
  LET rec == hs[h] IN
  /\ rec.pc = "createUser"
  /\ IF users[rec.phone] = NoUser
       THEN /\ users' = CreateUser(users, rec.phone, "pending")
            /\ hs' = [hs EXCEPT ![h] =
                        Sending([rec EXCEPT !.branch = "optin_new"], "optin", "done")]
       ELSE /\ users' = users
            /\ hs' = [hs EXCEPT ![h] = OnThrow(rec)]
  /\ UNCHANGED <<auditVars, gpsVars, agentVars, clockVars, limiterVars, transactions, lastLedger, sessionVars,
                 received, failures, overlaps>>

\* const isPending = await userService.isUserPending(From)
IsPendingStep(h) ==
  LET rec == hs[h] IN
  /\ rec.pc = "isPending"
  /\ hs' = [hs EXCEPT ![h] =
              [rec EXCEPT !.pc = "isActive",
                          !.isPending = IsUserPending(users, rec.phone)]]
  /\ UNCHANGED <<auditVars, gpsVars, agentVars, clockVars, limiterVars, ledgerVars, sessionVars, received, failures, overlaps>>

\* A router that consults the rate limiter before the opt-in test.
RateLimitBeforeOptIn(h) ==
  LET rec == hs[h]
      r == CheckLimits(limits, rec.phone, now)
  IN
  /\ rec.pc = "isActive"
  /\ limits' = r.limits
  /\ hs' = [hs EXCEPT ![h] =
              IF users[rec.phone].status # "active"
                THEN IF IsYesConfirmation(rec.body)
                       THEN [rec EXCEPT !.branch = "activate", !.pc = "activateUser"]
                       ELSE Sending([rec EXCEPT !.branch = "optin"], "optin", "done")
              ELSE IF r.allowed THEN Dispatch(rec)
              ELSE Sending([rec EXCEPT !.branch = "ratelimit"], "ratelimit", "done")]
  /\ UNCHANGED <<auditVars, gpsVars, agentVars, clockVars, maxPerMinute, maxPerHour, maxPerDay, lastCheck,
                 limitsNoSweep, lastCheckNoSweep, hist, ledgerVars, sessionVars,
                 received, failures, overlaps>>

\* isUserActive and what follows it without an await: the opt-in branch for
\* an account that is not active, else the rate-limit check and, when it
\* allows, the dispatch of handleActiveUserMessage.
IsActiveStep(h) ==
  LET rec == hs[h]
      r == CheckLimits(limits, rec.phone, now)
  IN
  /\ rec.pc = "isActive"
  /\ IF users[rec.phone].status # "active"
       THEN /\ hs' = [hs EXCEPT ![h] =
                        IF IsYesConfirmation(rec.body)
                          THEN [rec EXCEPT !.branch = "activate", !.pc = "activateUser"]
                          ELSE Sending([rec EXCEPT !.branch = "optin"], "optin", "done")]
            /\ limits' = limits
       ELSE /\ limits' = r.limits
            /\ hs' = [hs EXCEPT ![h] =
                        IF r.allowed THEN Dispatch(rec)
                        ELSE Sending([rec EXCEPT !.branch = "ratelimit"],
                                     "ratelimit", "done")]
  /\ UNCHANGED <<auditVars, gpsVars, agentVars, clockVars, maxPerMinute, maxPerHour, maxPerDay, lastCheck,
                 limitsNoSweep, lastCheckNoSweep, hist, ledgerVars, sessionVars,
                 received, failures, overlaps>>

\* activateUser
ActivateUserStep(h) ==
  LET rec == hs[h] IN
  /\ rec.pc = "activateUser"
  /\ users' = IF users[rec.phone] = NoUser THEN users
              ELSE [users EXCEPT ![rec.phone].status = "active"]
  /\ hs' = [hs EXCEPT ![h].pc = "logConsent"]
  /\ UNCHANGED <<auditVars, gpsVars, agentVars, clockVars, limiterVars, transactions, lastLedger, sessionVars,
                 received, failures, overlaps>>

\* logConsent, then the test `if (isPending)` on the value read earlier
LogConsentStep(h) ==
  LET rec == hs[h] IN
  /\ rec.pc = "logConsent"
  /\ users' = IF users[rec.phone] = NoUser THEN users
              ELSE [users EXCEPT ![rec.phone].consent_timestamp = now]
  /\ hs' = [hs EXCEPT ![h] =
              IF rec.isPending THEN [rec EXCEPT !.pc = "addBonus"]
              ELSE Sending(rec, "activation", "done")]
  /\ UNCHANGED <<auditVars, gpsVars, agentVars, clockVars, limiterVars, transactions, lastLedger, sessionVars,
                 received, failures, overlaps>>

\* addCredits(phoneNumber, FREE_TRIAL_CREDITS)
AddBonusStep(h) ==
  LET rec == hs[h] IN
  /\ rec.pc = "addBonus"
  /\ users' = AddCredits(users, rec.phone, FREE_TRIAL_CREDITS)
  /\ credited' = IF users[rec.phone] = NoUser THEN credited
                   ELSE [credited EXCEPT ![rec.phone] = @ + FREE_TRIAL_CREDITS]
  /\ hs' = [hs EXCEPT ![h].pc = "logBonus"]
  /\ UNCHANGED <<gpsVars, agentVars, clockVars, limiterVars, transactions, lastLedger, sessionVars,
                 received, failures, overlaps>>

\* logTransaction(phoneNumber, 'purchase', FREE_TRIAL_CREDITS, ...)
LogBonusStep(h) ==
  LET rec == hs[h] IN
  /\ rec.pc = "logBonus"
  /\ transactions' = LogTransaction(transactions, rec.phone, "purchase",
                                    FREE_TRIAL_CREDITS, "Free trial credits")
  /\ hs' = [hs EXCEPT ![h] = Sending(rec, "activation", "done")]
  /\ UNCHANGED <<auditVars, gpsVars, agentVars, clockVars, limiterVars, users, lastLedger, sessionVars,
                 received, failures, overlaps>>

\* The handler after the call it awaited has returned, by the place rec.ret
\* names: the end of the handler; the deductCredits call of the MORE branch,
\* which is outside the try block of handleMoreCommand; the sendSMS of the
\* expanded reply; the deductCredits call of the conversation branch; the
\* logTransaction call after a deductCredits; the deductCredits call of
\* handleImageAnalysis; the sendSMS that ends handlePlaceSearch and the
\* weather branch.
Resume(rec) ==
  CASE rec.ret = "done" -> Finished(rec)
    [] rec.ret = "more_deduct" ->
         [rec EXCEPT !.pc = "dc_read", !.scope = "active", !.ret = "more_log"]
    [] rec.ret = "more_send" -> Sending(rec, "expanded", "more_deduct")
    [] rec.ret = "ai_deduct" -> [rec EXCEPT !.pc = "dc_read", !.ret = "ai_log"]
    [] rec.ret = "img_deduct" -> [rec EXCEPT !.pc = "dc_read", !.ret = "img_log"]
    [] rec.ret = "ps_send" -> Sending(rec, "places", "done")
    [] rec.ret = "wx_send" -> Sending(rec, "reply", "done")
    [] OTHER -> [rec EXCEPT !.pc = rec.ret]

\* twilioService.sendSMS resolves: the message is sent.
SendOk(h) ==
  LET rec == hs[h] IN
  /\ rec.pc = "send"
  /\ hs' = [hs EXCEPT ![h] = Resume([rec EXCEPT !.sent = Append(@, rec.kind)])]
  /\ UNCHANGED <<auditVars, gpsVars, agentVars, clockVars, limiterVars, ledgerVars, sessionVars, received, failures, overlaps>>

\* twilioService.sendSMS throws 'Failed to send SMS'.
SendFails(h) ==
  LET rec == hs[h] IN
  /\ rec.pc = "send"
  /\ failures < MaxFailures
  /\ failures' = failures + 1
  /\ hs' = [hs EXCEPT ![h] = OnThrow(rec)]
  /\ UNCHANGED <<auditVars, gpsVars, agentVars, clockVars, limiterVars, ledgerVars, sessionVars, received, overlaps>>

\* handleStopCommand: deactivateUser
\* A handleStopCommand whose deactivateUser also forfeits the balance.
StopDeactivateAndForfeit(h) ==
  LET rec == hs[h] IN
  /\ rec.pc = "stop_deactivate"
  /\ users' = IF users[rec.phone] = NoUser THEN users
              ELSE [users EXCEPT ![rec.phone].status = "inactive",
                                 ![rec.phone].credits_remaining = 0]
  /\ hs' = [hs EXCEPT ![h] = Sending(rec, "stop", "done")]
  /\ UNCHANGED <<auditVars, gpsVars, agentVars, clockVars, limiterVars, transactions, lastLedger, sessionVars,
                 received, failures, overlaps>>

StopDeactivateStep(h) ==
  LET rec == hs[h] IN
  /\ rec.pc = "stop_deactivate"
  /\ users' = IF users[rec.phone] = NoUser THEN users
              ELSE [users EXCEPT ![rec.phone].status = "inactive"]
  /\ hs' = [hs EXCEPT ![h] = Sending(rec, "stop", "done")]
  /\ UNCHANGED <<auditVars, gpsVars, agentVars, clockVars, limiterVars, transactions, lastLedger, sessionVars,
                 received, failures, overlaps>>

\* handleHelpCommand: getUser, for the balance the help text shows
HelpGetUserStep(h) ==
  LET rec == hs[h] IN
  /\ rec.pc = "help_getUser"
  /\ hs' = [hs EXCEPT ![h] = Sending(rec, "help", "done")]
  /\ UNCHANGED <<auditVars, gpsVars, agentVars, clockVars, limiterVars, ledgerVars, sessionVars, received, failures, overlaps>>

\* handleNoCredits: getUser, for the balance the notice shows
NoCreditsGetUserStep(h) ==
  LET rec == hs[h] IN
  /\ rec.pc = "nc_getUser"
  /\ hs' = [hs EXCEPT ![h] = Sending(rec, "nocredits", "done")]
  /\ UNCHANGED <<auditVars, gpsVars, agentVars, clockVars, limiterVars, ledgerVars, sessionVars, received, failures, overlaps>>

\* handleGPSMessage: saveLocation, then osmService.searchNearby when the
\* text holds a place category, else the confirmation the default branch
\* builds for a message that holds coordinates and nothing else.
GpsSaveLocationStep(h) ==
  LET rec == hs[h]
      fix == ParseLocation(rec.body)
  IN
  /\ rec.pc = "gps_saveLocation"
  /\ sessions' = SaveLocation(sessions, rec.phone, fix.lat, fix.lon, now)
  /\ hs' = [hs EXCEPT ![h] =
              IF ParseCategoryFromQuery(rec.body) # "none"
                THEN [rec EXCEPT !.pc = "gps_search"]
                ELSE Sending(rec, "gps_saved", "done")]
  /\ UNCHANGED <<auditVars, gpsVars, agentVars, clockVars, limiterVars, ledgerVars, nextSessionId, arrivals, updates,
                 received, failures, overlaps>>

\* hasCredits(phoneNumber, 1) of the MORE branch and of the conversation
\* branch: without a credit handleNoCredits runs and the handler returns.
HasCreditsStep(h) ==
  LET rec == hs[h] IN
  /\ rec.pc \in {"more_hasCredits", "ai_hasCredits"}
  /\ hs' = [hs EXCEPT ![h] =
              IF ~HasCredits(users, rec.phone, 1)
                THEN [rec EXCEPT !.pc = "nc_getUser", !.scope = "nocredits"]
              ELSE IF rec.pc = "more_hasCredits"
                THEN [rec EXCEPT !.pc = "more_getContext", !.scope = "more"]
              ELSE [rec EXCEPT !.pc = "ai_getContext"]]
  /\ UNCHANGED <<auditVars, gpsVars, agentVars, clockVars, limiterVars, ledgerVars, sessionVars, received, failures, overlaps>>

\* handleMoreCommand: getContext and the test for a reply to expand
MoreGetContextStep(h) ==
  LET rec == hs[h] IN
  /\ rec.pc = "more_getContext"
  /\ \E row \in SelectLatest(sessions, rec.phone) :
       LET context == GetContext(row, now) IN
       hs' = [hs EXCEPT ![h] =
                IF NothingToExpand(context)
                  THEN Sending(rec, "no_previous", "more_deduct")
                  ELSE [rec EXCEPT !.pc = "more_expand"]]
  /\ UNCHANGED <<auditVars, gpsVars, agentVars, clockVars, limiterVars, ledgerVars, sessionVars, received, failures, overlaps>>

\* A handleMoreCommand that hands the text MORE to updateSession.
MoreExpandAppends(h) ==
  LET rec == hs[h] IN
  /\ rec.pc = "more_expand"
  /\ \E x \in Expansions :
       hs' = [hs EXCEPT ![h] =
                [rec EXCEPT !.pc = "us_read", !.msg = rec.body, !.reply = x,
                            !.ret = "more_send"]]
  /\ UNCHANGED <<auditVars, gpsVars, agentVars, clockVars, limiterVars, ledgerVars, sessionVars, received, failures, overlaps>>

\* handleMoreCommand: aiService.expandResponse resolves, and
\* updateSession(phoneNumber, null, expandedResponse) is called.
MoreExpandOk(h) ==
  LET rec == hs[h] IN
  /\ rec.pc = "more_expand"
  /\ \E x \in Expansions :
       hs' = [hs EXCEPT ![h] =
                [rec EXCEPT !.pc = "us_read", !.msg = Null, !.reply = x,
                            !.ret = "more_send"]]
  /\ UNCHANGED <<auditVars, gpsVars, agentVars, clockVars, limiterVars, ledgerVars, sessionVars, received, failures, overlaps>>

\* The conversation branch: getContext
AiGetContextStep(h) ==
  LET rec == hs[h] IN
  /\ rec.pc = "ai_getContext"
  /\ hs' = [hs EXCEPT ![h].pc = "ai_generate"]
  /\ UNCHANGED <<auditVars, gpsVars, agentVars, clockVars, limiterVars, ledgerVars, sessionVars, received, failures, overlaps>>

\* The conversation branch: aiService.generateResponse resolves, and
\* updateSession(phoneNumber, messageBody, aiResponse) is called.
AiGenerateOk(h) ==
  LET rec == hs[h] IN
  /\ rec.pc = "ai_generate"
  /\ \E r \in AiReplies :
       hs' = [hs EXCEPT ![h] =
                [rec EXCEPT !.pc = "us_read", !.msg = rec.body, !.reply = r,
                            !.ret = "ai_deduct"]]
  /\ UNCHANGED <<auditVars, gpsVars, agentVars, clockVars, limiterVars, ledgerVars, sessionVars, received, failures, overlaps>>

\* aiService.generateResponse or aiService.expandResponse throws.
AiFails(h) ==
  LET rec == hs[h] IN
  /\ rec.pc \in {"ai_generate", "more_expand"}
  /\ failures < MaxFailures
  /\ failures' = failures + 1
  /\ hs' = [hs EXCEPT ![h] = OnThrow(rec)]
  /\ UNCHANGED <<auditVars, gpsVars, agentVars, clockVars, limiterVars, ledgerVars, sessionVars, received, overlaps>>

\* updateSession: its getSession
UpdateSessionRead(h) ==
  LET rec == hs[h] IN
  /\ rec.pc = "us_read"
  /\ \E row \in SelectLatest(sessions, rec.phone) :
       hs' = [hs EXCEPT ![h] = [rec EXCEPT !.pc = "us_write", !.row = GetSession(row, now)]]
  /\ UNCHANGED <<auditVars, gpsVars, agentVars, clockVars, limiterVars, ledgerVars, sessionVars, received, failures, overlaps>>

\* updateSession: its INSERT or UPDATE
UpdateSessionWriteStep(h) ==
  LET rec == hs[h] IN
  /\ rec.pc = "us_write"
  /\ sessions' = UpdateSessionWrite(sessions, nextSessionId, rec.row, rec.phone,
                                    rec.msg, rec.reply, now)
  /\ nextSessionId' = IF rec.row = NoSession /\ rec.msg # Null
                        THEN nextSessionId + 1 ELSE nextSessionId
  /\ hs' = [hs EXCEPT ![h] = Resume([rec EXCEPT !.row = NoSession])]
  /\ UNCHANGED <<auditVars, gpsVars, agentVars, clockVars, limiterVars, ledgerVars, arrivals, updates, received, failures, overlaps>>

\* deductCredits(phoneNumber, 1): its getUser and its test; the handler
\* ignores the value deductCredits returns.
DeductCreditsRead(h) ==
  LET rec == hs[h] IN
  /\ rec.pc = "dc_read"
  /\ hs' = [hs EXCEPT ![h] =
              IF DeductGuard(users[rec.phone], 1)
                THEN [rec EXCEPT !.pc = "dc_write"]
                ELSE Resume(rec)]
  /\ UNCHANGED <<auditVars, gpsVars, agentVars, clockVars, limiterVars, ledgerVars, sessionVars, received, failures, overlaps>>

\* deductCredits(phoneNumber, 1): its UPDATE
DeductCreditsWrite(h) ==
  LET rec == hs[h] IN
  /\ rec.pc = "dc_write"
  /\ users' = DeductUpdate(users, rec.phone, 1)
  /\ hs' = [hs EXCEPT ![h] = Resume(rec)]
  /\ UNCHANGED <<auditVars, gpsVars, agentVars, clockVars, limiterVars, transactions, lastLedger, sessionVars,
                 received, failures, overlaps>>

\* logTransaction(phoneNumber, 'usage', -1, ...) of the MORE branch, which
\* then returns, and of the conversation branch, which then sends the reply.
LogUsageStep(h) ==
  LET rec == hs[h] IN
  /\ rec.pc \in {"more_log", "ai_log"}
  /\ transactions' = LogTransaction(transactions, rec.phone, "usage", -1,
                        IF rec.pc = "more_log" THEN "Expanded response (MORE)"
                        ELSE "AI conversation")
  /\ hs' = [hs EXCEPT ![h] =
              IF rec.pc = "more_log" THEN Finished(rec)
              ELSE Sending(rec, "reply", "done")]
  /\ UNCHANGED <<auditVars, gpsVars, agentVars, clockVars, limiterVars, users, lastLedger, sessionVars,
                 received, failures, overlaps>>

\* One step of handler h.
HandlerStep(h) ==
  \/ UserExists(h) \/ CreateUserStep(h) \/ IsPendingStep(h) \/ IsActiveStep(h)
  \/ ActivateUserStep(h) \/ LogConsentStep(h) \/ AddBonusStep(h) \/ LogBonusStep(h)
  \/ SendOk(h) \/ SendFails(h)
  \/ StopDeactivateStep(h) \/ HelpGetUserStep(h) \/ NoCreditsGetUserStep(h)
  \/ GpsSaveLocationStep(h)
  \/ HasCreditsStep(h) \/ MoreGetContextStep(h) \/ MoreExpandOk(h)
  \/ AiGetContextStep(h) \/ AiGenerateOk(h) \/ AiFails(h)
  \/ UpdateSessionRead(h) \/ UpdateSessionWriteStep(h)
  \/ DeductCreditsRead(h) \/ DeductCreditsWrite(h) \/ LogUsageStep(h)

\* The replies of the weather and the map collaborators.
WeatherReplies == {"w1"}
PlaceReplies == {"p1"}

\* hasCredits(phoneNumber, 1) of handleImageAnalysis, of the weather branch
\* and of handlePlaceSearch: without a credit handleNoCredits runs and the
\* handler returns.
BranchHasCreditsStep(h) ==
  LET rec == hs[h] IN
  /\ rec.pc \in {"img_hasCredits", "wx_hasCredits", "ps_hasCredits"}
  /\ hs' = [hs EXCEPT ![h] =
              IF ~HasCredits(users, rec.phone, 1)
                THEN [rec EXCEPT !.pc = "nc_getUser", !.scope = "nocredits"]
              ELSE IF rec.pc = "img_hasCredits"
                THEN [rec EXCEPT !.pc = "img_analyze"]
              ELSE IF rec.pc = "wx_hasCredits"
                THEN [rec EXCEPT !.pc = "dc_read", !.ret = "wx_log"]
              ELSE [rec EXCEPT !.pc = "dc_read", !.ret = "ps_log"]]
  /\ UNCHANGED <<auditVars, gpsVars, agentVars, clockVars, limiterVars, ledgerVars, sessionVars, received, failures, overlaps>>

\* handleImageAnalysis: aiService.analyzeImage resolves, and
\* updateSession(phoneNumber, `[Image] ${userQuestion}`, aiResponse) is called.
ImgAnalyzeOk(h) ==
  LET rec == hs[h] IN
  /\ rec.pc = "img_analyze"
  /\ \E r \in AiReplies :
       hs' = [hs EXCEPT ![h] =
                [rec EXCEPT !.pc = "us_read", !.msg = "[Image]", !.reply = r,
                            !.ret = "img_deduct"]]
  /\ UNCHANGED <<auditVars, gpsVars, agentVars, clockVars, limiterVars, ledgerVars, sessionVars, received, failures, overlaps>>

\* handleLocationQuery: getLastLocation, then the position or the request to
\* share one.
LocGetLastLocationStep(h) ==
  LET rec == hs[h] IN
  /\ rec.pc = "loc_getLastLocation"
  /\ \E row \in SelectLatest(sessions, rec.phone) :
       hs' = [hs EXCEPT ![h] =
                IF GetLastLocation(row, now).found
                  THEN Sending(rec, "location", "done")
                  ELSE Sending(rec, "no_location", "done")]
  /\ UNCHANGED <<auditVars, gpsVars, agentVars, clockVars, limiterVars, ledgerVars, sessionVars, received, failures, overlaps>>

\* The weather branch: aiService.handleWeatherQuery resolves with a text.
WxQueryOk(h) ==
  LET rec == hs[h] IN
  /\ rec.pc = "wx_query"
  /\ \E w \in WeatherReplies :
       hs' = [hs EXCEPT ![h] =
                [rec EXCEPT !.pc = "wx_hasCredits", !.msg = rec.body, !.reply = w]]
  /\ UNCHANGED <<auditVars, gpsVars, agentVars, clockVars, limiterVars, ledgerVars, sessionVars, received, failures, overlaps>>

\* handlePlaceSearch: getContext and getLastLocation; without a fix the
\* request to share a position is sent and handlePlaceSearch returns true.
PsGetLastLocationStep(h) ==
  LET rec == hs[h] IN
  /\ rec.pc = "ps_getLastLocation"
  /\ \E row \in SelectLatest(sessions, rec.phone) :
       hs' = [hs EXCEPT ![h] =
                IF GetLastLocation(row, now).found
                  THEN [rec EXCEPT !.pc = "ps_search"]
                  ELSE Sending(rec, "share_location", "done")]
  /\ UNCHANGED <<auditVars, gpsVars, agentVars, clockVars, limiterVars, ledgerVars, sessionVars, received, failures, overlaps>>

\* handlePlaceSearch: osmService.searchNearby resolves.
PsSearchOk(h) ==
  LET rec == hs[h] IN
  /\ rec.pc = "ps_search"
  /\ \E r \in PlaceReplies :
       hs' = [hs EXCEPT ![h] =
                [rec EXCEPT !.pc = "ps_hasCredits", !.msg = rec.body, !.reply = r]]
  /\ UNCHANGED <<auditVars, gpsVars, agentVars, clockVars, limiterVars, ledgerVars, sessionVars, received, failures, overlaps>>

\* handleGPSMessage with a place category: osmService.searchNearby resolves
\* and the result is sent.
GpsSearchOk(h) ==
  LET rec == hs[h] IN
  /\ rec.pc = "gps_search"
  /\ \E r \in PlaceReplies :
       hs' = [hs EXCEPT ![h] = Sending([rec EXCEPT !.reply = r], "places", "done")]
  /\ UNCHANGED <<auditVars, gpsVars, agentVars, clockVars, limiterVars, ledgerVars, sessionVars, received, failures, overlaps>>

\* aiService.analyzeImage, aiService.handleWeatherQuery or
\* osmService.searchNearby throws.
CollaboratorFails(h) ==
  LET rec == hs[h] IN
  /\ rec.pc \in {"img_analyze", "wx_query", "ps_search", "gps_search"}
  /\ failures < MaxFailures
  /\ failures' = failures + 1
  /\ hs' = [hs EXCEPT ![h] = OnThrow(rec)]
  /\ UNCHANGED <<auditVars, gpsVars, agentVars, clockVars, limiterVars, ledgerVars, sessionVars, received, overlaps>>

\* logTransaction(phoneNumber, 'usage', -1, ...) of handlePlaceSearch and of
\* the weather branch, which go on to updateSession, and of
\* handleImageAnalysis, which goes on to send the reply.
BranchLogUsageStep(h) ==
  LET rec == hs[h] IN
  /\ rec.pc \in {"ps_log", "wx_log", "img_log"}
  /\ transactions' = LogTransaction(transactions, rec.phone, "usage", -1,
                        CASE rec.pc = "ps_log" -> "Place search"
                          [] rec.pc = "wx_log" -> "Weather query"
                          [] OTHER -> "AI conversation (image analysis)")
  /\ hs' = [hs EXCEPT ![h] =
              CASE rec.pc = "ps_log" -> [rec EXCEPT !.pc = "us_read", !.ret = "ps_send"]
                [] rec.pc = "wx_log" -> [rec EXCEPT !.pc = "us_read", !.ret = "wx_send"]
                [] OTHER -> Sending(rec, "reply", "done")]
  /\ UNCHANGED <<auditVars, gpsVars, agentVars, clockVars, limiterVars, users, lastLedger, sessionVars,
                 received, failures, overlaps>>

\* One step of handler h in the image, where-am-I, weather and place-search
\* branches.
BranchStep(h) ==
  \/ BranchHasCreditsStep(h) \/ ImgAnalyzeOk(h) \/ LocGetLastLocationStep(h)
  \/ WxQueryOk(h) \/ PsGetLastLocationStep(h) \/ PsSearchOk(h)
  \/ GpsSearchOk(h) \/ CollaboratorFails(h) \/ BranchLogUsageStep(h)

\* ------------------------------------------------------------ custom agents

\* The identities that call the account routes.
AgentOwners == {"+46701", "+15552"}

AgentIds == 1..MaxAgents

\* No row of custom_agents has this id.
NoAgent == [phone_number |-> NoPhone, name |-> "", active |-> FALSE]

\* agentLimits['pro']: the accounts of the model are on the pro plan.
PRO_AGENT_LIMIT == 3

AgentRequests == 1..2

\* A request slot that handles nothing.
IdleRequest ==
  [pc |-> "idle", user |-> NoPhone, op |-> "none", id |-> 0, name |-> "",
   http |-> 0]

RequestIdle(r) == reqs[r].pc \in {"idle", "done"}

\* res.status(code): the route returns.
Answered(req, code) == [req EXCEPT !.pc = "done", !.http = code]

\* getCustomAgents(phoneNumber)
GetCustomAgents(A, p) == {id \in AgentIds : A[id].phone_number = p}

\* An ownership test that lets every existing agent through.
NotFound(agent, p) == agent = NoAgent

\* !agent || agent.phone_number !== req.user.phone_number
NotOwned(agent, p) == agent = NoAgent \/ agent.phone_number # p

\* A route of /api/account/agents is called by the authenticated identity p.
\* The synchronous validation of the body has passed.
ReceiveRequest(r, p, op, id, name) ==
  /\ RequestIdle(r)
  /\ requests < MaxRequests
  /\ requests' = requests + 1
  /\ reqs' = [reqs EXCEPT ![r] =
                [IdleRequest EXCEPT
                   !.pc = CASE op = "create" -> "getCustomAgents"
                            [] op = "deactivate" -> "deactivateAll"
                            [] OTHER -> "getCustomAgent",
                   !.user = p, !.op = op, !.id = id, !.name = name]]
  /\ UNCHANGED <<auditVars, gpsVars, clockVars, limiterVars, ledgerVars, sessionVars, handlerVars,
                 customAgents, activeAgentId, nextAgentId>>

\* POST /agents: getUser and getCustomAgents, then the limit of the plan.
GetCustomAgentsStep(r) ==
  LET req == reqs[r] IN
  /\ req.pc = "getCustomAgents"
  /\ reqs' = [reqs EXCEPT ![r] =
                IF Cardinality(GetCustomAgents(customAgents, req.user)) >= PRO_AGENT_LIMIT
                  THEN Answered(req, 403)
                  ELSE [req EXCEPT !.pc = "createCustomAgent"]]
  /\ UNCHANGED <<auditVars, gpsVars, clockVars, limiterVars, ledgerVars, sessionVars, handlerVars,
                 customAgents, activeAgentId, nextAgentId, requests>>

\* createCustomAgent: INSERT INTO custom_agents ... RETURNING id.  The
\* column active defaults to false.
CreateCustomAgentStep(r) ==
  LET req == reqs[r] IN
  /\ req.pc = "createCustomAgent"
  /\ nextAgentId <= MaxAgents
  /\ customAgents' = [customAgents EXCEPT ![nextAgentId] =
                        [phone_number |-> req.user, name |-> req.name,
                         active |-> FALSE]]
  /\ nextAgentId' = nextAgentId + 1
  /\ reqs' = [reqs EXCEPT ![r] = Answered([req EXCEPT !.id = nextAgentId], 201)]
  /\ UNCHANGED <<auditVars, gpsVars, clockVars, limiterVars, ledgerVars, sessionVars, handlerVars,
                 activeAgentId, requests>>

\* getCustomAgent(agentId) and the ownership test of PUT /agents/:id,
\* DELETE /agents/:id and POST /agents/:id/activate.
GetCustomAgentStep(r) ==
  LET req == reqs[r]
      agent == IF req.id \in AgentIds THEN customAgents[req.id] ELSE NoAgent
  IN
  /\ req.pc = "getCustomAgent"
  /\ reqs' = [reqs EXCEPT ![r] =
                IF NotOwned(agent, req.user) THEN Answered(req, 404)
                ELSE [req EXCEPT !.pc =
                        CASE req.op = "update" -> "updateCustomAgent"
                          [] req.op = "delete" -> "deleteCustomAgent"
                          [] OTHER -> "deactivateAll"]]
  /\ UNCHANGED <<auditVars, gpsVars, clockVars, limiterVars, ledgerVars, sessionVars, handlerVars,
                 customAgents, activeAgentId, nextAgentId, requests>>

\* updateCustomAgent: UPDATE custom_agents SET name, ... WHERE id = agentId
UpdateCustomAgentStep(r) ==
  LET req == reqs[r] IN
  /\ req.pc = "updateCustomAgent"
  /\ customAgents' = IF customAgents[req.id] = NoAgent THEN customAgents
                     ELSE [customAgents EXCEPT ![req.id].name = req.name]
  /\ reqs' = [reqs EXCEPT ![r] = Answered(req, 200)]
  /\ UNCHANGED <<auditVars, gpsVars, clockVars, limiterVars, ledgerVars, sessionVars, handlerVars,
                 activeAgentId, nextAgentId, requests>>

\* deleteCustomAgent: DELETE FROM custom_agents WHERE id = agentId
DeleteCustomAgentStep(r) ==
  LET req == reqs[r] IN
  /\ req.pc = "deleteCustomAgent"
  /\ customAgents' = [customAgents EXCEPT ![req.id] = NoAgent]
  /\ reqs' = [reqs EXCEPT ![r] = Answered(req, 200)]
  /\ UNCHANGED <<auditVars, gpsVars, clockVars, limiterVars, ledgerVars, sessionVars, handlerVars,
                 activeAgentId, nextAgentId, requests>>

\* The first statement of activateCustomAgent and of deactivateCustomAgent:
\* UPDATE custom_agents SET active = false WHERE phone_number = p
DeactivateAllStep(r) ==
  LET req == reqs[r] IN
  /\ req.pc = "deactivateAll"
  /\ customAgents' = [id \in AgentIds |->
                        IF customAgents[id].phone_number = req.user
                          THEN [customAgents[id] EXCEPT !.active = FALSE]
                          ELSE customAgents[id]]
  /\ reqs' = [reqs EXCEPT ![r].pc =
                IF req.op = "activate" THEN "activateOne" ELSE "setActiveAgentId"]
  /\ UNCHANGED <<auditVars, gpsVars, clockVars, limiterVars, ledgerVars, sessionVars, handlerVars,
                 activeAgentId, nextAgentId, requests>>

\* activateCustomAgent: UPDATE custom_agents SET active = true WHERE id = agentId
ActivateOneStep(r) ==
  LET req == reqs[r] IN
  /\ req.pc = "activateOne"
  /\ customAgents' = IF customAgents[req.id] = NoAgent THEN customAgents
                     ELSE [customAgents EXCEPT ![req.id].active = TRUE]
  /\ reqs' = [reqs EXCEPT ![r].pc = "setActiveAgentId"]
  /\ UNCHANGED <<auditVars, gpsVars, clockVars, limiterVars, ledgerVars, sessionVars, handlerVars,
                 activeAgentId, nextAgentId, requests>>

\* UPDATE users SET active_agent_id = agentId (activate) or null (deactivate)
SetActiveAgentIdStep(r) ==
  LET req == reqs[r] IN
  /\ req.pc = "setActiveAgentId"
  /\ activeAgentId' = [activeAgentId EXCEPT ![req.user] =
                         IF req.op = "activate" THEN req.id ELSE 0]
  /\ reqs' = [reqs EXCEPT ![r] = Answered(req, 200)]
  /\ UNCHANGED <<auditVars, gpsVars, clockVars, limiterVars, ledgerVars, sessionVars, handlerVars,
                 customAgents, nextAgentId, requests>>

\* One step of request r.
RequestStep(r) ==
  \/ GetCustomAgentsStep(r) \/ CreateCustomAgentStep(r) \/ GetCustomAgentStep(r)
  \/ UpdateCustomAgentStep(r) \/ DeleteCustomAgentStep(r)
  \/ DeactivateAllStep(r) \/ ActivateOneStep(r) \/ SetActiveAgentIdStep(r)

InitAgents ==
  /\ customAgents = [id \in AgentIds |-> NoAgent]
  /\ activeAgentId = [p \in AgentOwners |-> 0]
  /\ nextAgentId = 1
  /\ reqs = [r \in AgentRequests |-> IdleRequest]
  /\ requests = 0

\* -------------------------------------------------------------- GPS parser

\* A text is a sequence of characters.  These words stand for the stretch
\* of a text that one regular expression of parseLocation matches up to its
\* first number, and for the two characters outside ASCII:
GOOGLE_Q == "maps.google.com/?q="    \* maps\.google\.com.*[?&]q=
GOOGLE_AT == "google.com/maps/@"     \* google\.com\/maps.*@
APPLE_LL == "maps.apple.com/?ll="    \* maps\.apple\.com.*[?&](?:ll|coordinate)=
LAT == "lat"                         \* lat[itude]*
LON == "lon"                         \* lon[gitude]*
DEGREE == "deg"                      \* the degree sign
O_UMLAUT == "Oe"                     \* the letter O with two dots

Digits == {"0", "1", "2", "3", "4", "5", "6", "7", "8", "9"}

DigitValue(c) ==
  CASE c = "0" -> 0 [] c = "1" -> 1 [] c = "2" -> 2 [] c = "3" -> 3
    [] c = "4" -> 4 [] c = "5" -> 5 [] c = "6" -> 6 [] c = "7" -> 7
    [] c = "8" -> 8 [] c = "9" -> 9

\* The character at position i, or the empty string past the end.
At(t, i) == IF i \in 1..Len(t) THEN t[i] ELSE ""

\* \d* from position i: the position after the longest run of digits.
RECURSIVE DigitRunEnd(_, _)
DigitRunEnd(t, i) ==
  IF At(t, i) \in Digits THEN DigitRunEnd(t, i + 1) ELSE i

\* \s* from position i.
RECURSIVE SkipSpaces(_, _)
SkipSpaces(t, i) ==
  IF At(t, i) = " " THEN SkipSpaces(t, i + 1) ELSE i

\* [,\s]* from position i.
RECURSIVE SeparatorRunEnd(_, _)
SeparatorRunEnd(t, i) ==
  IF At(t, i) \in {",", " "} THEN SeparatorRunEnd(t, i + 1) ELSE i

\* The group (-?\d+[.,]?\d*) from position i: the position of its first
\* digit, and the positions after its matches.  The expression is greedy and
\* gives characters back one at a time, so it tries the ends from the
\* greatest down.
NumberStart(t, i) == IF At(t, i) = "-" THEN i + 1 ELSE i

NumberEnds(t, i) ==
  LET k == NumberStart(t, i)
      e == DigitRunEnd(t, k)
      f == IF At(t, e) \in {".", ","} THEN DigitRunEnd(t, e + 1) ELSE e
  IN IF e = k THEN {} ELSE (k + 1)..f

\* The end the expression settles on: the first one tried that lets the
\* rest of the expression match.
Greedy(ends) == CHOOSE j \in ends : \A j2 \in ends : j2 <= j

NoMatch == [found |-> FALSE, a1 |-> 0, b1 |-> 0, a2 |-> 0, b2 |-> 0]

Match(a1, b1, a2, b2) == [found |-> TRUE, a1 |-> a1, b1 |-> b1, a2 |-> a2, b2 |-> b2]

\* The leftmost start at which an unanchored expression matches.
Leftmost(starts) == CHOOSE i \in starts : \A i2 \in starts : i <= i2

\* word(-?\d+[.,]?\d*),(-?\d+[.,]?\d*) : the link expressions.
LinkMatchAt(t, i) ==
  LET ends == {j \in NumberEnds(t, i + 1) :
                 At(t, j) = "," /\ NumberEnds(t, j + 1) # {}}
  IN IF ends = {} THEN NoMatch
     ELSE LET j == Greedy(ends)
          IN Match(i + 1, j, j + 1, Greedy(NumberEnds(t, j + 1)))

LinkMatch(t, word) ==
  LET starts == {i \in 1..Len(t) : t[i] = word /\ LinkMatchAt(t, i).found}
  IN IF starts = {} THEN NoMatch ELSE LinkMatchAt(t, Leftmost(starts))

\* /^(-?\d+[.,]?\d*)\s*,\s*(-?\d+[.,]?\d*)$/
SimpleMatch(t) ==
  LET second(j) == SkipSpaces(t, SkipSpaces(t, j) + 1)
      ends == {j \in NumberEnds(t, 1) :
                 /\ At(t, SkipSpaces(t, j)) = ","
                 /\ Len(t) + 1 \in NumberEnds(t, second(j))}
  IN IF ends = {} THEN NoMatch
     ELSE LET j == Greedy(ends)
          IN Match(1, j, second(j), Len(t) + 1)

NorthSouth == {"N", "S", "n", "s"}
EastWest == {"E", "W", O_UMLAUT, "V", "e", "w", "v"}

\* /(-?\d+[.,]?\d*)deg?\s*[NS],?\s*(-?\d+[.,]?\d*)deg?\s*[EW..V]/i
AfterDegree(t, j) == SkipSpaces(t, IF At(t, j) = DEGREE THEN j + 1 ELSE j)

DegreesMatchAt(t, i) ==
  LET second(j) ==
        LET p == AfterDegree(t, j) + 1
        IN SkipSpaces(t, IF At(t, p) = "," THEN p + 1 ELSE p)
      ends2(j) == {j2 \in NumberEnds(t, second(j)) :
                     At(t, AfterDegree(t, j2)) \in EastWest}
      ends == {j \in NumberEnds(t, i) :
                 At(t, AfterDegree(t, j)) \in NorthSouth /\ ends2(j) # {}}
  IN IF ends = {} THEN NoMatch
     ELSE LET j == Greedy(ends)
          IN Match(i, j, second(j), Greedy(ends2(j)))

DegreesMatch(t) ==
  LET starts == {i \in 1..Len(t) : DegreesMatchAt(t, i).found}
  IN IF starts = {} THEN NoMatch ELSE DegreesMatchAt(t, Leftmost(starts))

\* /lat[itude]*\s*:?\s*(-?\d+[.,]?\d*)[,\s]+lon[gitude]*\s*:?\s*(-?\d+[.,]?\d*)/i
AfterColon(t, i) ==
  LET p == SkipSpaces(t, i)
  IN SkipSpaces(t, IF At(t, p) = ":" THEN p + 1 ELSE p)

LatLonMatchAt(t, i) ==
  LET first == AfterColon(t, i + 1)
      second(j) == AfterColon(t, SeparatorRunEnd(t, j) + 1)
      ends == {j \in NumberEnds(t, first) :
                 /\ SeparatorRunEnd(t, j) > j
                 /\ At(t, SeparatorRunEnd(t, j)) = LON
                 /\ NumberEnds(t, second(j)) # {}}
  IN IF At(t, i) # LAT \/ ends = {} THEN NoMatch
     ELSE LET j == Greedy(ends)
          IN Match(first, j, second(j), Greedy(NumberEnds(t, second(j))))

LatLonMatch(t) ==
  LET starts == {i \in 1..Len(t) : LatLonMatchAt(t, i).found}
  IN IF starts = {} THEN NoMatch ELSE LatLonMatchAt(t, Leftmost(starts))

\* Coordinates are in units of 0.0001 degree: the texts of the model have
\* at most four decimals.
DEGREE_UNITS == 10000

RECURSIVE DigitsValue(_, _, _)
DigitsValue(t, a, b) ==
  IF a >= b THEN 0 ELSE DigitsValue(t, a, b - 1) * 10 + DigitValue(t[b - 1])

RECURSIVE DecimalsValue(_, _, _, _)
DecimalsValue(t, a, b, unit) ==
  IF a >= b \/ unit = 0 THEN 0
  ELSE DigitValue(t[a]) * unit + DecimalsValue(t, a + 1, b, unit \div 10)

\* parseFloat(group.replace(',', '.')) of the group t[a..b-1].
ParseFloat(t, a, b) ==
  LET k == NumberStart(t, a)
      run == DigitRunEnd(t, k)
      e == IF run < b THEN run ELSE b
      magnitude == DigitsValue(t, k, e) * DEGREE_UNITS
                   + DecimalsValue(t, e + 1, b, DEGREE_UNITS \div 10)
  IN IF At(t, a) = "-" THEN 0 - magnitude ELSE magnitude

\* isValidCoordinate
IsValidCoordinate(lat, lon) ==
  /\ lat >= (0 - 90) * DEGREE_UNITS /\ lat <= 90 * DEGREE_UNITS
  /\ lon >= (0 - 180) * DEGREE_UNITS /\ lon <= 180 * DEGREE_UNITS

\* message.trim()
RECURSIVE TrimEnd(_)
TrimEnd(t) ==
  IF t # <<>> /\ t[Len(t)] = " " THEN TrimEnd(SubSeq(t, 1, Len(t) - 1)) ELSE t

Trim(t) == LET u == TrimEnd(t) IN SubSeq(u, SkipSpaces(u, 1), Len(u))

NotParsed == [found |-> FALSE, lat |-> 0, lon |-> 0, source |-> "none"]

Located(t, m, source) ==
  [found |-> TRUE, lat |-> ParseFloat(t, m.a1, m.b1),
   lon |-> ParseFloat(t, m.a2, m.b2), source |-> source]

\* The loop over coordPatterns: the first expression that matches with
\* valid coordinates gives the location.
RECURSIVE RawCoords(_, _)
RawCoords(t, matches) ==
  IF matches = <<>> THEN NotParsed
  ELSE LET m == Head(matches)
           valid == m.found /\ IsValidCoordinate(ParseFloat(t, m.a1, m.b1),
                                                 ParseFloat(t, m.a2, m.b2))
       IN IF valid THEN Located(t, m, "raw_coords")
          ELSE RawCoords(t, Tail(matches))

\* GPSService.parseLocation
ParseLocationText(msg) ==
  LET text == Trim(msg)
      googleQ == LinkMatch(text, GOOGLE_Q)
      googleMatch == IF googleQ.found THEN googleQ ELSE LinkMatch(text, GOOGLE_AT)
      appleMatch == LinkMatch(text, APPLE_LL)
  IN IF googleMatch.found THEN Located(text, googleMatch, "google_maps")
     ELSE IF appleMatch.found THEN Located(text, appleMatch, "apple_maps")
     ELSE RawCoords(text, <<SimpleMatch(text), DegreesMatch(text), LatLonMatch(text)>>)

\* The numbers written in the texts given to parseLocation.
GpsNumbers ==
  { <<"5", "9", ".", "3", "2", "9", "3">>,
    <<"1", "8", ".", "0", "6", "8", "6">>,
    <<"5", "9", ",", "3", "2", "9", "3">>,
    <<"-", "9", "0">>,
    <<"9", "0", ".", "0", "0", "0", "1">>,
    <<"9", "1">>,
    <<"1", "8", "0">>,
    <<"2", "0", "0">> }

\* The ways the two numbers n1 and n2 are written in a message.
GpsForms(n1, n2) ==
  { n1 \o <<",">> \o n2,
    <<" ">> \o n1 \o <<",", " ">> \o n2 \o <<" ">>,
    <<GOOGLE_Q>> \o n1 \o <<",">> \o n2,
    <<GOOGLE_AT>> \o n1 \o <<",">> \o n2 \o <<",", "1", "5", "z">>,
    <<APPLE_LL>> \o n1 \o <<",">> \o n2,
    <<APPLE_LL>> \o n1 \o <<",", " ">> \o n2,
    n1 \o <<DEGREE, " ", "N", ",", " ">> \o n2 \o <<DEGREE, " ", "E">>,
    <<LAT, ":", " ">> \o n1 \o <<",", " ", LON, ":", " ">> \o n2 }

GpsTexts == UNION {GpsForms(n1, n2) : n1, n2 \in GpsNumbers}

\* No text has been handed to parseLocation yet.
Unparsed == [found |-> FALSE, lat |-> 0, lon |-> 0, source |-> "unparsed"]

\* gpsService.parseLocation(message)
ParseLocationCall ==
  /\ location = Unparsed
  /\ location' = ParseLocationText(message)
  /\ UNCHANGED <<auditVars, agentVars, clockVars, limiterVars, ledgerVars, sessionVars, handlerVars,
                 message>>

InitGps == message = <<>> /\ location = Unparsed

InitAudit == credited = [p \in Phones |-> 0]

InitHandlers ==
  /\ hs = [h \in Handlers |-> IdleHandler]
  /\ received = 0
  /\ failures = 0
  /\ overlaps = 0

LimiterDeltas == {WindowDuration(w) : w \in WindowSet}

InitClock == now = 0 /\ advances = 0

InitLimiter ==
  /\ maxPerMinute \in 1..MaxLimit
  /\ maxPerHour \in 1..MaxLimit
  /\ maxPerDay \in 1..MaxLimit
  /\ limits = [k \in Keys |-> NoEntry]
  /\ limitsNoSweep = [k \in Keys |-> NoEntry]
  /\ lastCheck = [phone |-> NoPhone, allowed |-> TRUE, window |-> NoWindow]
  /\ lastCheckNoSweep = [phone |-> NoPhone, allowed |-> TRUE, window |-> NoWindow]
  /\ hist = [k \in Keys |-> NoHist]

InitRL ==
  InitClock /\ InitLimiter /\ InitLedger /\ InitSessions /\ InitHandlers /\ InitGps
  /\ InitAgents /\ InitAudit

NextRL ==
  \/ \E p \in LimiterPhones : CheckLimitsCall(p)
  \/ CleanupTick
  \/ \E d \in LimiterDeltas : AdvanceClock(d)

\* The rate limiter alone: calls, sweeps and the passing of time.
SpecLimiter == InitRL /\ [][NextRL]_vars

\* new RateLimiter(5, 30, 200), the limiter the SMS router constructs
ROUTER_MAX_PER_MINUTE == 5
ROUTER_MAX_PER_HOUR == 30
ROUTER_MAX_PER_DAY == 200

InitRouterLimiter ==
  /\ maxPerMinute = ROUTER_MAX_PER_MINUTE
  /\ maxPerHour = ROUTER_MAX_PER_HOUR
  /\ maxPerDay = ROUTER_MAX_PER_DAY
  /\ limits = [k \in Keys |-> NoEntry]
  /\ limitsNoSweep = [k \in Keys |-> NoEntry]
  /\ lastCheck = [phone |-> NoPhone, allowed |-> TRUE, window |-> NoWindow]
  /\ lastCheckNoSweep = [phone |-> NoPhone, allowed |-> TRUE, window |-> NoWindow]
  /\ hist = [k \in Keys |-> NoHist]

InitServices ==
  /\ InitClock /\ InitRouterLimiter /\ InitLedger /\ InitSessions
  /\ InitHandlers /\ InitGps /\ InitAgents /\ InitAudit

NextLedger ==
  \/ \E p \in Phones : CreateUserCall(p)
  \/ \E p \in Phones, n \in Amounts : AddCreditsCall(p, n)
  \/ \E p \in Phones, n \in Amounts : DeductCreditsCall(p, n)

\* The credit ledger alone: UserService calls made one at a time.
SpecLedger == InitServices /\ [][NextLedger]_vars

SessionDeltas == {60 * 1000, SESSION_TIMEOUT_MINUTES * 60 * 1000}

NextSession ==
  \/ \E p \in Phones, m \in Texts \cup {Null}, r \in Replies : UpdateSessionCall(p, m, r)
  \/ ClearExpiredSessionsTick
  \/ \E d \in SessionDeltas : AdvanceClock(d)

\* The session store alone: SessionService calls made one at a time.
SpecSession == InitServices /\ [][NextSession]_vars

\* The senders of the inbound messages.
SmsPhones == {"+46701"}

NextExpiry ==
  \/ \E p \in SmsPhones, m \in Texts \cup {Null}, r \in Replies : UpdateSessionCall(p, m, r)
  \/ ClearExpiredSessionsTick
  \/ \E d \in SessionDeltas : AdvanceClock(d)

\* The session store with the calls of one identity: updateSession and
\* getContext select by phone_number, so one identity's sessions are not
\* touched by another's calls.
SpecExpiry == InitServices /\ [][NextExpiry]_vars

HandlerDeltas == {(SESSION_TIMEOUT_MINUTES + 1) * 60 * 1000}

\* Express handles one request to completion before the next arrives.
NextSeq ==
  \/ \E p \in SmsPhones, body \in Bodies : AllIdle /\ Receive(1, p, body, FALSE)
  \/ HandlerStep(1)
  \/ \E d \in HandlerDeltas : AllIdle /\ advances < MaxSmsAdvances /\ AdvanceClock(d)
  \/ AllIdle /\ ClearExpiredSessionsTick

\* The SMS webhook, one message at a time.  The texts are those of Bodies,
\* without an image: no step of BranchStep is enabled for them.
Spec == InitServices /\ [][NextSeq]_vars

\* The limiter's table after n calls of checkLimits(p) at time 0.
RECURSIVE Checked(_, _, _)
Checked(lim, p, n) ==
  IF n = 0 THEN lim ELSE Checked(CheckLimits(lim, p, 0).limits, p, n - 1)

\* The service with one confirmed account that has sent ROUTER_MAX_PER_MINUTE
\* free messages (HELP) within the current minute: the state the router is
\* in after the opt-in prompt, YES and five HELP messages at time 0.
InitBurst ==
  /\ InitClock /\ InitSessions /\ InitHandlers /\ InitGps /\ InitAgents
  /\ maxPerMinute = ROUTER_MAX_PER_MINUTE
  /\ maxPerHour = ROUTER_MAX_PER_HOUR
  /\ maxPerDay = ROUTER_MAX_PER_DAY
  /\ limits \in {Checked([k \in Keys |-> NoEntry], p, ROUTER_MAX_PER_MINUTE) :
                    p \in SmsPhones}
  /\ limitsNoSweep = [k \in Keys |-> NoEntry]
  /\ lastCheck = [phone |-> NoPhone, allowed |-> TRUE, window |-> NoWindow]
  /\ lastCheckNoSweep = [phone |-> NoPhone, allowed |-> TRUE, window |-> NoWindow]
  /\ hist = [k \in Keys |-> NoHist]
  /\ users \in {[AddCredits(CreateUser([q \in Phones |-> NoUser], p, "active"),
                              p, FREE_TRIAL_CREDITS)
                     EXCEPT ![p].consent_timestamp = 0] : p \in SmsPhones}
  /\ transactions \in {LogTransaction(<<>>, p, "purchase", FREE_TRIAL_CREDITS,
                                        "Free trial credits") : p \in SmsPhones}
  /\ lastLedger = NoLedgerCall
  /\ credited = [q \in Phones |-> IF q \in SmsPhones THEN FREE_TRIAL_CREDITS ELSE 0]

\* The SMS webhook, one message at a time, from a fresh service or from a
\* service whose one account has used up its messages of the minute.
SpecBurst == (InitServices \/ InitBurst) /\ [][NextSeq]_vars

\* One request at a time, with every text and with images, at one instant.
NextBranches ==
  \/ \E p \in SmsPhones, m \in Inbound : AllIdle /\ Receive(1, p, m.body, m.media)
  \/ HandlerStep(1)
  \/ BranchStep(1)

\* The SMS webhook, one message at a time, all branches of
\* handleActiveUserMessage.
SpecBranches == InitServices /\ [][NextBranches]_vars

\* Requests arrive while earlier ones are still awaiting a call.  The two
\* handler records are interchangeable, so a request takes the first one
\* unless it is busy.  The texts are those of Bodies, without an image: no
\* step of BranchStep is enabled for them.
NextConc ==
  \/ \E h \in Handlers, p \in SmsPhones, body \in Bodies :
       (h = 1 \/ ~Idle(1)) /\ Receive(h, p, body, FALSE)
  \/ \E h \in Handlers : HandlerStep(h)

\* The SMS webhook with two requests in flight.
SpecConc == InitServices /\ [][NextConc]_vars

InitParser ==
  /\ InitClock /\ InitRouterLimiter /\ InitLedger /\ InitSessions /\ InitHandlers
  /\ InitAgents /\ InitAudit
  /\ message \in GpsTexts
  /\ location = Unparsed

NextParser == ParseLocationCall

\* GPSService.parseLocation applied to one text.
SpecParser == InitParser /\ [][NextParser]_vars

\* The calls of the account routes a client makes.  name stands for the
\* (name, description, systemPrompt) of the request body.
AgentCalls ==
  [op : {"create"}, id : {0}, name : {"guide"}]
    \cup [op : {"update"}, id : AgentIds, name : {"medic"}]
    \cup [op : {"delete", "activate"}, id : AgentIds, name : {""}]
    \cup [op : {"deactivate"}, id : {0}, name : {""}]

\* Calls arrive while earlier ones are still awaiting a statement.  The two
\* request slots are interchangeable, so a call takes the first one unless
\* it is busy.
NextAgents ==
  \/ \E r \in AgentRequests, p \in AgentOwners, c \in AgentCalls :
       (r = 1 \/ ~RequestIdle(1)) /\ ReceiveRequest(r, p, c.op, c.id, c.name)
  \/ \E r \in AgentRequests : RequestStep(r)

\* The custom-agent routes of /api/account with two calls in flight.
SpecAgents == InitServices /\ [][NextAgents]_vars

\* ------------------------------------------------ claims: the credit ledger

\* C1: deductCredits(p, n) run without interleaving returns false and leaves
\* the table unchanged when the account is missing or its balance is below n;
\* otherwise it returns true and the balance decreases by exactly n, no other
\* account changes, and the balance is not negative after the call.
C1_DeductContract ==
  [][\A p \in Phones, n \in Amounts : DeductCreditsCall(p, n) =>
      /\ IF users[p] = NoUser \/ users[p].credits_remaining < n
           THEN ~lastLedger'.ok /\ users' = users
           ELSE /\ lastLedger'.ok
                /\ users'[p].credits_remaining = users[p].credits_remaining - n
                /\ \A q \in Phones \ {p} : users'[q] = users[q]
      /\ users'[p].credits_remaining >= 0
    ]_vars

\* C1 witness: a debit larger than a positive balance was refused.
C1_Witness ==
  \E p \in Phones :
    /\ lastLedger = [op |-> "deduct", phone |-> p, amount |-> lastLedger.amount, ok |-> FALSE]
    /\ users[p] # NoUser
    /\ users[p].credits_remaining > 0
    /\ users[p].credits_remaining < lastLedger.amount

\* ------------------------------------------------ claims: the session store

\* The last n elements of a sequence, in order.
LastOf(seq, n) ==
  LET k == IF Len(seq) < n THEN Len(seq) ELSE n IN
  [i \in 1..k |-> seq[Len(seq) - k + i]]

\* C5: once updateSession(p, m, r) with a message m has completed,
\* getContext(p) returns lastAiResponse = r, whether the session existed or
\* the call created it.
C5_UpdateStoresReply ==
  [][\A p \in Phones, m \in Texts, r \in Replies : UpdateSessionCall(p, m, r) =>
      \A row \in SelectLatest(sessions', p) : GetContext(row, now').lastAiResponse = r
    ]_vars

\* C6: no stored session holds more than 3 messages, and an unexpired
\* session holds exactly the last min(N, 3) of the N messages appended to it,
\* in arrival order.
C6_SessionWindow ==
  /\ \A s \in sessions : Len(s.messages) <= 3
  /\ \A p \in Phones : \A row \in SelectLatest(sessions, p) :
       GetSession(row, now) # NoSession =>
         GetSession(row, now).messages = LastOf(arrivals[p], 3)

\* C6 witness: four messages were appended to one session and the first,
\* which differs from the fourth, is the one that was dropped.
C6_Witness ==
  \E p \in Phones : \E row \in SelectLatest(sessions, p) :
    /\ GetSession(row, now) # NoSession
    /\ Len(arrivals[p]) = 4
    /\ arrivals[p][1] # arrivals[p][4]
    /\ Len(row.messages) = 3

\* C24: after every step, getContext returns the messages and the last reply
\* of the identity's most recently updated session when that session was
\* updated at most 30 minutes ago, and an empty list and null otherwise; and
\* an updateSession with a message, made when that session is older than 30
\* minutes, leaves every stored session in place and adds one whose context
\* is the new message alone, with no reply and no location.
C24_ContextExpiry ==
  [][/\ \A p \in Phones : \A row \in SelectLatest(sessions', p) :
          GetContext(row, now') =
            IF row # NoSession /\ now' - row.updated_at <= 30 * 60 * 1000
              THEN [messages |-> row.messages, lastAiResponse |-> row.last_ai_response]
              ELSE [messages |-> <<>>, lastAiResponse |-> Null]
     /\ \A p \in Phones, m \in Texts, r \in Replies :
          (/\ UpdateSessionCall(p, m, r)
           /\ \E old \in SelectLatest(sessions, p) :
                old # NoSession /\ now - old.updated_at > 30 * 60 * 1000) =>
            /\ sessions \subseteq sessions'
            /\ Cardinality(sessions') = Cardinality(sessions) + 1
            /\ \A row \in SelectLatest(sessions', p) :
                 /\ row \notin sessions
                 /\ GetContext(row, now') = [messages |-> <<m>>, lastAiResponse |-> Null]
                 /\ row.last_location = NoLocation
    ]_vars

\* C24 witness: an identity has an expired session that holds a reply, and a
\* newer session that holds one message, which is not in the expired one.
C24_Witness ==
  \E old \in sessions, new \in sessions :
    /\ old.phone_number = new.phone_number
    /\ now - old.updated_at > 30 * 60 * 1000
    /\ now - new.updated_at <= 30 * 60 * 1000
    /\ old.last_ai_response # Null
    /\ Len(new.messages) = 1
    /\ \A i \in 1..Len(old.messages) : old.messages[i] # new.messages[1]

\* ------------------------------------------------- claims: the rate limiter

\* C7: inside one window of a key, while no call is denied by another window,
\* the first max calls are allowed and call max+1 is denied by that window;
\* a call that comes after the window's reset time has passed is not denied
\* by that window and leaves a new entry with count 1 and a reset time one
\* window length ahead.
C7_WindowAllowsMaxThenDenies ==
  [][\A p \in Phones : CheckLimitsCall(p) =>
      \A w \in WindowSet :
        LET h == hist'[<<p, w>>] IN
        /\ (h.clean /\ h.calls >= 1 /\ h.calls <= MaxLimitOf(w)) => lastCheck'.allowed
        /\ (h.clean /\ h.calls = MaxLimitOf(w) + 1) =>
              (~lastCheck'.allowed /\ lastCheck'.window = w)
        /\ h.fresh =>
              /\ lastCheck'.window # w
              /\ limits'[<<p, w>>] = [count |-> 1, resetAt |-> now + WindowDuration(w)]
    ]_vars

\* C7 witness: the hour window denied a call, its reset time passed, and the
\* next call was allowed and started a new hour window.
C7_Witness ==
  \E p \in Phones :
    /\ lastCheck.phone = p /\ lastCheck.allowed
    /\ hist[<<p, "hour">>].fresh /\ hist[<<p, "hour">>].afterDeny
    /\ limits[<<p, "hour">>].count = 1

\* C8: a denied checkLimits call leaves the denying window's entry and the
\* entries of the windows after it exactly as they were, and has counted the
\* call in every window before it.
C8_DenialShortCircuits ==
  [][\A p \in Phones : (CheckLimitsCall(p) /\ ~lastCheck'.allowed) =>
      LET w == lastCheck'.window IN
      /\ w \in WindowSet
      /\ limits'[<<p, w>>] = limits[<<p, w>>]
      /\ \A v \in Later(w) : limits'[<<p, v>>] = limits[<<p, v>>]
      /\ \A v \in Earlier(w) : limits'[<<p, v>>] # limits[<<p, v>>]
    ]_vars

\* C8 witness: the minute window denied a call while the hour window still
\* had room, so that a call reaching it would have been counted.
C8_Witness ==
  \E p \in Phones :
    /\ lastCheck.phone = p /\ ~lastCheck.allowed /\ lastCheck.window = "minute"
    /\ limits[<<p, "hour">>] # NoEntry
    /\ limits[<<p, "hour">>].count < maxPerHour
    /\ now <= limits[<<p, "hour">>].resetAt

\* C9: the limiter that sweeps and the limiter that never sweeps give the
\* same answer, and name the same window, on every call.
C9_SweepNotObservable == lastCheck = lastCheckNoSweep

\* C9 witness: cleanup() removed the minute entry, and the next call, which
\* recreated it, was denied by the hour window.
C9_Witness ==
  \E p \in Phones :
    /\ lastCheck.phone = p /\ ~lastCheck.allowed /\ lastCheck.window = "hour"
    /\ hist[<<p, "minute">>].resurrected

\* -------------------------------------------------- claims: the SMS webhook

\* C2: with messages of one sender handled concurrently, every account's
\* credit balance is at least 0 in every reachable state.
C2_BalanceNeverNegative ==
  \A p \in Phones : users[p].credits_remaining >= 0

\* The 'purchase' entries of the transaction log that belong to p.
BonusEntries(p) ==
  {i \in 1..Len(transactions) :
     /\ transactions[i].phone_number = p
     /\ transactions[i].type = "purchase"
     /\ transactions[i].credits_delta = FREE_TRIAL_CREDITS}

\* C3: with messages handled one at a time, whenever no message is being
\* handled an account that was ever confirmed has exactly one signup bonus
\* entry and an account that never was has none; a confirmation handled for
\* a pending account raised its balance by FREE_TRIAL_CREDITS and logged one
\* entry, and a confirmation handled for an inactive account left the balance
\* and the log as they were.
C3_BonusExactlyOnce ==
  AllIdle =>
    /\ \A p \in Phones :
         Cardinality(BonusEntries(p)) =
           IF users[p].status \in {"active", "inactive"} THEN 1 ELSE 0
    /\ \A h \in Handlers :
         LET rec == hs[h] IN
         (rec.pc = "done" /\ rec.branch = "activate") =>
           /\ rec.pre.status = "pending" =>
                /\ users[rec.phone].credits_remaining = rec.pre.credits + FREE_TRIAL_CREDITS
                /\ Len(transactions) = rec.pre.txs + 1
           /\ rec.pre.status = "inactive" =>
                /\ users[rec.phone].credits_remaining = rec.pre.credits
                /\ Len(transactions) = rec.pre.txs

\* C3 witness: an account that had spent part of its bonus and opted out has
\* confirmed again and is active.
C3_Witness ==
  \E h \in Handlers :
    /\ hs[h].pc = "done" /\ hs[h].branch = "activate"
    /\ hs[h].pre.status = "inactive"
    /\ hs[h].pre.credits \in 1..(FREE_TRIAL_CREDITS - 1)
    /\ users[hs[h].phone].status = "active"
    /\ hs[h].sent = <<"activation">>

\* C4: once MORE from an active account whose session context held no reply
\* has been handled without a collaborator failing, the corrective message
\* is the one message sent, the balance is what it was and no transaction
\* has been logged.
C4_MoreWithoutReplyIsFree ==
  \A h \in Handlers :
    LET rec == hs[h] IN
    (/\ rec.pc = "done" /\ rec.branch = "more" /\ ~rec.threw
     /\ AllIdle
     /\ rec.pre.status = "active" /\ rec.pre.noReply) =>
      /\ rec.sent = <<"no_previous">>
      /\ users[rec.phone].credits_remaining = rec.pre.credits
      /\ Len(transactions) = rec.pre.txs

\* C10: once a GPS message from an active account has been handled without
\* a collaborator failing, getLastLocation returns the fix the message held,
\* whether or not the account had a session row.
C10_GpsFixIsStored ==
  \A h \in Handlers :
    LET rec == hs[h] IN
    (rec.pc = "done" /\ rec.branch = "gps" /\ ~rec.threw /\ AllIdle) =>
      \A row \in SelectLatest(sessions, rec.phone) :
        GetLastLocation(row, now) = ParseLocation(rec.body)

\* C11: a location fix that getLastLocation returns stays available through
\* every step of the program for as long as it is at most 24 hours old: the
\* session's expiry, a new session created by a later message and the sweep
\* of expired sessions do not take it away.
C11_FixOutlivesSession ==
  [][\A p \in SmsPhones : \A row \in SelectLatest(sessions, p) :
      (/\ GetLastLocation(row, now).found
       /\ now' - row.last_location.timestamp <= LOCATION_MAX_AGE_HOURS * 60 * 60 * 1000) =>
        \A after \in SelectLatest(sessions', p) : GetLastLocation(after, now').found
    ]_vars

\* C12: once a message has been handled, whatever the collaborators did, it
\* has debited at most one credit, logged at most one transaction and
\* produced at most one reply.
C12_OneBranchPerMessage ==
  \A h \in Handlers :
    LET rec == hs[h] IN
    (rec.pc = "done" /\ AllIdle) =>
      /\ rec.pre.credits - users[rec.phone].credits_remaining <= 1
      /\ Len(transactions) - rec.pre.txs <= 1
      /\ Len(rec.sent) <= 1

\* The branches of handleActiveUserMessage in their stated order.
BranchOrder ==
  <<"image", "empty", "stop", "help", "gps", "place", "location", "more",
    "weather", "ai">>

\* The guard of each branch, on a request with the given text and image flag.
BranchGuard(name, media, body) ==
  CASE name = "image" -> media
    [] name = "empty" -> body = ""
    [] name = "stop" -> IsStopCommand(body)
    [] name = "help" -> IsHelpCommand(body)
    [] name = "gps" -> ParseLocation(body).found
    [] name = "place" -> IsPlaceSearch(body)
    [] name = "location" -> IsLocationQueryCommand(body)
    [] name = "more" -> IsMoreCommand(body)
    [] name = "weather" -> IsWeatherQuery(body)
    [] OTHER -> TRUE

\* The first branch of BranchOrder whose guard holds.
FirstMatching(media, body) ==
  LET i == CHOOSE k \in 1..Len(BranchOrder) :
             /\ BranchGuard(BranchOrder[k], media, body)
             /\ \A j \in 1..(k - 1) : ~BranchGuard(BranchOrder[j], media, body)
  IN BranchOrder[i]

\* The branch a message enters first is the first branch, in the stated
\* order, whose guard holds; a message that entered the GPS branch is never
\* at a step of another branch and, once handled, has left the balance and
\* the transaction log as they were.
FirstBranchInOrder ==
  \A h \in Handlers :
    LET rec == hs[h] IN
    /\ rec.branch \in {BranchOrder[k] : k \in 1..Len(BranchOrder)} =>
          rec.branch = FirstMatching(rec.media, rec.body)
    /\ rec.branch = "gps" =>
          /\ rec.pc \in {"gps_saveLocation", "gps_search", "send", "done"}
          /\ rec.pc = "done" =>
                /\ users[rec.phone].credits_remaining = rec.pre.credits
                /\ Len(transactions) = rec.pre.txs

\* C13: a message of an active account that the rate limiter allowed is
\* handled by the first branch, in the stated order, whose guard holds, and
\* by no other branch; in particular a message whose text parses as
\* coordinates is handled by the GPS branch alone.
C13_FirstMatchingBranch ==
  /\ FirstBranchInOrder
  /\ \A h \in Handlers : hs[h].second = "none"

\* C15: the step that ends the handling of MORE from an active account with
\* a reply in its session context and a balance of at least 1, no
\* collaborator having failed, leaves the balance 1 lower, one more
\* transaction, of type usage with delta -1, the expansion as the session's
\* last AI reply and the session's message list as it was.
C15_MoreExpandsAndCharges ==
  [][\A h \in Handlers :
       (/\ hs[h].pc # "done" /\ hs'[h].pc = "done"
        /\ hs'[h].branch = "more" /\ ~hs'[h].threw
        /\ hs'[h].pre.status = "active" /\ ~hs'[h].pre.noReply
        /\ hs'[h].pre.credits >= 1) =>
         /\ users'[hs'[h].phone].credits_remaining = hs'[h].pre.credits - 1
         /\ Len(transactions') = hs'[h].pre.txs + 1
         /\ transactions'[Len(transactions')].phone_number = hs'[h].phone
         /\ transactions'[Len(transactions')].type = "usage"
         /\ transactions'[Len(transactions')].credits_delta = -1
         /\ hs'[h].reply \in Expansions
         /\ hs'[h].sent = <<"expanded">>
         /\ \A row \in SelectLatest(sessions', hs'[h].phone) :
              /\ GetContext(row, now').lastAiResponse = hs'[h].reply
              /\ GetContext(row, now').messages \in hs'[h].pre.messages]_vars

\* C15 witness: MORE from an active account with a reply to expand has been
\* handled and the expansion has been sent.
C15_Witness ==
  \E h \in Handlers :
    /\ hs[h].pc = "done" /\ hs[h].branch = "more" /\ ~hs[h].threw
    /\ hs[h].pre.status = "active" /\ ~hs[h].pre.noReply
    /\ hs[h].pre.credits >= 1
    /\ hs[h].sent = <<"expanded">>

\* C16: the step that ends the handling of STOP leaves the account inactive;
\* an inactive account stays inactive until the activateUser of a
\* confirmation; and no step of the handling of a message that is not a
\* confirmation, received while the account is inactive, changes a balance,
\* the transaction log, a session or the rate limiter's counters, or sends
\* anything but the opt-in prompt.
C16_OptedOutGetsOnlyPrompt ==
  [][\A h \in Handlers :
       /\ (hs[h].pc # "done" /\ hs'[h].pc = "done" /\ hs'[h].branch = "stop") =>
            users'[hs'[h].phone].status = "inactive"
       /\ \A p \in SmsPhones :
            (users[p].status = "inactive" /\ users'[p].status # "inactive") =>
              \E g \in Handlers :
                /\ hs[g].pc = "activateUser" /\ hs[g].phone = p
                /\ IsYesConfirmation(hs[g].body)
       /\ (/\ ~Idle(h) /\ hs[h].pre.status = "inactive"
           /\ ~IsYesConfirmation(hs[h].body)) =>
            /\ UNCHANGED <<users, transactions, sessions, nextSessionId, limits>>
            /\ hs'[h].branch \in {"none", "optin"}
            /\ hs'[h].reply = Null
            /\ hs'[h].sent \in {<<>>, <<"optin">>}]_vars

\* C16 witness: a question from an account that opted out with credits left
\* has been answered with the opt-in prompt.
C16_Witness ==
  \E h \in Handlers :
    /\ hs[h].pc = "done" /\ hs[h].pre.status = "inactive"
    /\ hs[h].body = "Hello" /\ hs[h].pre.credits >= 1
    /\ hs[h].sent = <<"optin">>

\* The sum of credits_delta over the transactions of p.
RECURSIVE SumOfDeltas(_, _)
SumOfDeltas(T, p) ==
  IF T = <<>> THEN 0
  ELSE (IF Head(T).phone_number = p THEN Head(T).credits_delta ELSE 0)
       + SumOfDeltas(Tail(T), p)

\* C19: whenever no handler is in progress, the balance of each identity is
\* the sum of credits_delta over its transactions.
C19_BalanceIsSumOfLog ==
  AllIdle =>
    \A p \in SmsPhones :
      users[p].credits_remaining = SumOfDeltas(transactions, p)

\* C20: every message that carries a sender and a receiver, as the messages
\* of the model do, is answered 200, whatever call failed while it was
\* handled.
C20_FailuresAreSwallowed ==
  \A h \in Handlers : hs[h].pc = "done" => hs[h].http = 200

\* C21: the step that ends the handling of a message by the general AI
\* branch, no collaborator having failed.  With a balance of at least 1 one
\* reply has been generated and sent, the message has been appended to the
\* session, the balance is 1 lower and one transaction, of type usage with
\* delta -1, has been logged; with a balance of 0 the no-credits notice is
\* the one message sent, no reply has been generated, and balance, log and
\* session are as they were.
C21_ConversationCharge ==
  [][\A h \in Handlers :
       (/\ hs[h].pc # "done" /\ hs'[h].pc = "done"
        /\ hs'[h].branch = "ai" /\ ~hs'[h].threw
        /\ hs'[h].pre.status = "active") =>
         IF hs'[h].pre.credits >= 1
           THEN /\ hs'[h].reply \in AiReplies
                /\ hs'[h].sent = <<"reply">>
                /\ users'[hs'[h].phone].credits_remaining = hs'[h].pre.credits - 1
                /\ Len(transactions') = hs'[h].pre.txs + 1
                /\ transactions'[Len(transactions')].phone_number = hs'[h].phone
                /\ transactions'[Len(transactions')].type = "usage"
                /\ transactions'[Len(transactions')].credits_delta = -1
                /\ \A row \in SelectLatest(sessions', hs'[h].phone) :
                     GetContext(row, now').messages \in
                       {PushMessage(m, hs'[h].body) : m \in hs'[h].pre.messages}
           ELSE /\ hs'[h].reply = Null
                /\ hs'[h].sent = <<"nocredits">>
                /\ users'[hs'[h].phone].credits_remaining = hs'[h].pre.credits
                /\ Len(transactions') = hs'[h].pre.txs
                /\ \A row \in SelectLatest(sessions', hs'[h].phone) :
                     /\ GetContext(row, now').messages \in hs'[h].pre.messages
                     /\ NothingToExpand(GetContext(row, now')) = hs'[h].pre.noReply]_vars

\* C21 witness: a question from an active account with a balance of 0 has
\* been answered with the no-credits notice.
C21_Witness ==
  \E h \in Handlers :
    /\ hs[h].pc = "done" /\ hs[h].branch = "ai" /\ ~hs[h].threw
    /\ hs[h].pre.status = "active" /\ hs[h].pre.credits = 0
    /\ hs[h].sent = <<"nocredits">>

\* C22: once a position sent together with a place category has been
\* handled without a collaborator failing, the search result was sent only
\* to an account that had a credit, and then the balance is 1 lower and one
\* usage transaction has been logged; an account with nothing left got the
\* no-credits notice and no result.
C22_GpsPlaceSearchIsGated ==
  \A h \in Handlers :
    LET rec == hs[h] IN
    (/\ rec.pc = "done" /\ AllIdle /\ rec.branch = "gps" /\ ~rec.threw
     /\ ParseCategoryFromQuery(rec.body) # "none") =>
      IF rec.pre.credits >= 1
        THEN /\ rec.sent = <<"places">>
             /\ users[rec.phone].credits_remaining = rec.pre.credits - 1
             /\ Len(transactions) = rec.pre.txs + 1
             /\ transactions[Len(transactions)].type = "usage"
        ELSE rec.sent = <<"nocredits">>

\* C23: once a weather query from an active account has been handled
\* without a collaborator failing: with a balance of 0 the no-credits notice
\* is the one message sent and handleWeatherQuery has produced no forecast;
\* with a balance of at least 1 the forecast is sent, the balance is 1 lower
\* and one transaction has been logged.
C23_WeatherGateFirst ==
  \A h \in Handlers :
    LET rec == hs[h] IN
    (/\ rec.pc = "done" /\ AllIdle /\ rec.branch = "weather" /\ ~rec.threw
     /\ rec.pre.status = "active") =>
      IF rec.pre.credits = 0
        THEN rec.sent = <<"nocredits">> /\ rec.reply = Null
        ELSE /\ rec.sent = <<"reply">>
             /\ rec.reply \in WeatherReplies
             /\ users[rec.phone].credits_remaining = rec.pre.credits - 1
             /\ Len(transactions) = rec.pre.txs + 1

\* C30: when the handling of a text-only STOP, UNSUBSCRIBE or AVSLUTA sent by
\* an active account ends, the account is inactive, whatever the rate
\* limiter holds for the sender.
C30_OptOutNeverBlocked ==
  [][\A h \in Handlers :
       (/\ hs[h].pc # "done" /\ hs'[h].pc = "done"
        /\ IsStopCommand(hs'[h].body) /\ ~hs'[h].media
        /\ hs'[h].pre.status = "active") =>
         users'[hs'[h].phone].status = "inactive"]_vars

\* The handler is in one of the branches that cost nothing: the opt-in
\* prompt, the rate-limit notice, an empty message, STOP, HELP, where-am-I,
\* coordinates without a place category, a place search without a saved fix.
InFreeBranch(rec) ==
  \/ rec.branch \in {"optin_new", "optin", "ratelimit", "empty", "stop", "help",
                     "location"}
  \/ rec.branch = "gps" /\ ParseCategoryFromQuery(rec.body) = "none"
  \/ /\ rec.branch = "place"
     /\ \A row \in SelectLatest(sessions, rec.phone) : ~GetLastLocation(row, now).found

\* What the sessions hold of the conversation: messages and last reply.
Conversation(S) ==
  {[id |-> row.id, messages |-> row.messages, last |-> row.last_ai_response] :
     row \in S}

\* C25: no step of a handler that is in a free branch changes the sender's
\* balance, the transaction log, or the messages and last reply of a session.
C25_FreeBranchesAreFree ==
  [][\A h \in Handlers :
       (InFreeBranch(hs[h]) /\ hs'[h] # hs[h]) =>
         /\ users'[hs[h].phone].credits_remaining = users[hs[h].phone].credits_remaining
         /\ transactions' = transactions
         /\ Conversation(sessions') = Conversation(sessions)]_vars

\* The same for a handler whose handlePlaceSearch has not given up after a
\* failure (the fall-through of C12).
FreeUnlessFallThrough ==
  [][\A h \in Handlers :
       (InFreeBranch(hs[h]) /\ hs[h].second = "none" /\ hs'[h] # hs[h]) =>
         /\ users'[hs[h].phone].credits_remaining = users[hs[h].phone].credits_remaining
         /\ transactions' = transactions
         /\ Conversation(sessions') = Conversation(sessions)]_vars

\* A users row without its activation state and consent time.
AccountOf(user) == [user EXCEPT !.status = "none", !.consent_timestamp = -1]

\* C26: no step of a handler that handles STOP, or YES from an account that
\* opted out, changes anything of an account but its activation state and
\* consent time: balance and every other column stay, and so do the
\* transaction log, the custom agents and the active custom agent.
C26_OptOutAndBackKeepsAccount ==
  [][\A h \in Handlers :
       (/\ \/ hs[h].branch = "stop"
           \/ hs[h].branch = "activate" /\ hs[h].pre.status = "inactive"
        /\ hs'[h] # hs[h]) =>
         /\ \A p \in Phones : AccountOf(users'[p]) = AccountOf(users[p])
         /\ transactions' = transactions
         /\ customAgents' = customAgents
         /\ activeAgentId' = activeAgentId]_vars

\* C26 witness: an account that has spent part of its balance opted out and
\* has confirmed again, and its balance is what it was before the YES.
C26_Witness ==
  \E h \in Handlers :
    /\ hs[h].pc = "done" /\ hs[h].branch = "activate"
    /\ hs[h].pre.status = "inactive"
    /\ users[hs[h].phone].status = "active"
    /\ users[hs[h].phone].credits_remaining = hs[h].pre.credits
    /\ hs[h].pre.credits < FREE_TRIAL_CREDITS
    /\ \E i \in 1..Len(transactions) : transactions[i].type = "usage"

\* C27: with confirmations handled concurrently, an account holds at most
\* one free-trial bonus: its log has at most one bonus entry and, the webhook
\* adding credits in no other way, its balance never exceeds the bonus.
C27_BonusOnceUnderOverlap ==
  \A p \in Phones :
    /\ Cardinality(BonusEntries(p)) <= 1
    /\ users[p].credits_remaining <= FREE_TRIAL_CREDITS

\* The 'AI conversation' entries of p's log.  The general AI branch logs the
\* entry and then sends the reply: once every request is handled and no call
\* has failed, each entry stands for one AI reply that was delivered.
AiRepliesLogged(p) ==
  {i \in 1..Len(transactions) :
     /\ transactions[i].phone_number = p
     /\ transactions[i].type = "usage"
     /\ transactions[i].description = "AI conversation"}

\* C28: with every request handled and no call having failed, the AI replies
\* delivered to an identity do not outnumber the credits ever added to it.
C28_RepliesWithinCredits ==
  (AllIdle /\ failures = 0) =>
    \A p \in Phones : Cardinality(AiRepliesLogged(p)) <= credited[p]

\* C29: when the handling of a credit-costing message (a question, MORE, an
\* image, a weather query, a place search) has ended after a generation or a
\* send failed, the sender's balance and the transaction log are what they
\* were when the message arrived.
C29_FailureCostsNothing ==
  \A h \in Handlers :
    LET rec == hs[h] IN
    (/\ rec.pc = "done" /\ AllIdle /\ rec.threw
     /\ rec.branch \in {"ai", "more", "image", "weather", "place"}) =>
      /\ users[rec.phone].credits_remaining = rec.pre.credits
      /\ Len(transactions) = rec.pre.txs

\* ---------------------------------------------------- claims: the GPS parser

\* C14: every location parseLocation returns, whether from raw coordinates,
\* a Google Maps link or an Apple Maps link, has a latitude between -90 and
\* 90 and a longitude between -180 and 180.
C14_FixWithinRange ==
  location.found => IsValidCoordinate(location.lat, location.lon)

\* The raw-coordinate half of C14: a location read from raw coordinates is
\* within range, and the text 91,200 gives none.
RawCoordsWithinRange ==
  /\ (location.found /\ location.source = "raw_coords") =>
       IsValidCoordinate(location.lat, location.lon)
  /\ (message = <<"9", "1", ",", "2", "0", "0">> /\ location # Unparsed) =>
       ~location.found

\* -------------------------------------------------- claims: custom agents

ActiveAgents(p) ==
  {id \in AgentIds : customAgents[id].phone_number = p /\ customAgents[id].active}

\* C17: in every reachable state each identity has at most one custom agent
\* with active = true, whatever the interleaving of the calls.
C17_AtMostOneActive ==
  \A p \in AgentOwners : Cardinality(ActiveAgents(p)) <= 1

\* C18: no step of an update, delete or activate call that names an agent
\* of another identity changes a row of custom_agents or an identity's
\* active_agent_id, and the call is answered 404 by its first step.
C18_ForeignAgentRejected ==
  [][\A r \in AgentRequests :
       (/\ reqs[r] # reqs'[r] /\ ~RequestIdle(r)
        /\ reqs[r].op \in {"update", "delete", "activate"}
        /\ reqs[r].id \in AgentIds
        /\ customAgents[reqs[r].id] # NoAgent
        /\ customAgents[reqs[r].id].phone_number # reqs[r].user) =>
         /\ UNCHANGED <<customAgents, activeAgentId>>
         /\ reqs'[r].pc = "done" /\ reqs'[r].http = 404]_vars

\* C18 witness: a call that named an agent of another identity, active for
\* its owner, has been answered 404.
C18_Witness ==
  \E r \in AgentRequests :
    /\ reqs[r].pc = "done" /\ reqs[r].http = 404
    /\ reqs[r].op = "activate" /\ reqs[r].id \in AgentIds
    /\ customAgents[reqs[r].id] # NoAgent
    /\ customAgents[reqs[r].id].phone_number # reqs[r].user
    /\ customAgents[reqs[r].id].active
    /\ activeAgentId[customAgents[reqs[r].id].phone_number] = reqs[r].id

====
